---- MODULE Spec2Model ----
(***************************************************************************)
(* PICA200 vertex-shader core: the dispatcher (Setup / Run / Shutdown),    *)
(* the shader cache, and the x64 JIT compiler together with the code it    *)
(* emits.  Floats are modelled by integers (the float of that value) and   *)
(* one not-a-number code; a four-lane vector is a 4-tuple <<x, y, z, w>>.  *)
(***************************************************************************)
EXTENDS Integers, Sequences, FiniteSets, TLC

VARIABLES
    g_shader_jit_enabled,   \* VideoCore::g_shader_jit_enabled
    program_code,           \* g_state.vs.program_code   (a memory image)
    swizzle_data,           \* g_state.vs.swizzle_data   (a memory image)
    main_offset,            \* g_state.regs.vs.main_offset
    uniforms,               \* g_state.vs.uniforms  [b, i, f]
    input_register_map,     \* g_state.regs.vs.input_register_map
    vs_output_attributes,   \* g_state.regs.vs_output_attributes
    shader_map,             \* static unordered_map<u64, CompiledShader*>
    jit_shader,             \* static CompiledShader* jit_shader
    code_ptr,               \* the JIT emitter's write cursor (GetCodePtr)
    state,                  \* the caller's UnitState
    ret,                    \* the OutputVertex returned by the last Run
    crashed,                \* the process has been terminated
    obs                     \* observation of the last call (not program state)

vars == <<g_shader_jit_enabled, program_code, swizzle_data, main_offset,
          uniforms, input_register_map, vs_output_attributes, shader_map,
          jit_shader, code_ptr, state, ret, crashed, obs>>

-----------------------------------------------------------------------------
(* Bounds of the model *)

\* words of program memory (program_code.size())
ProgSize == 6
\* capacity of the JIT code region, in emitted units
CodeSpace == 14
\* largest iteration-count byte of an integer uniform
MaxCount == 2
\* vertices run in one behaviour
MaxRuns == 2

-----------------------------------------------------------------------------
(* Floats and vectors *)

\* the code that stands for a float NaN
NaN == 999

Abs(n) == IF n < 0 THEN 0 - n ELSE n

Min(a, b) == IF a < b THEN a ELSE b

Vec(x, y, z, w) == <<x, y, z, w>>

ZeroVec == <<0, 0, 0, 0>>

Splat(v) == <<v, v, v, v>>

\* ADDPS, one lane
FAdd(a, b) == IF a = NaN \/ b = NaN THEN NaN ELSE a + b

\* a float halfway between two integers: n + 1/2 is the code 2000 + n
Half(n) == 2000 + n

IsHalf(a) == a \in 1990..2010

\* XORPS with the sign-bit mask, one lane
FNeg(a) ==
    IF a = NaN THEN NaN
    ELSE IF IsHalf(a) THEN Half(0 - (a - 2000) - 1)
    ELSE 0 - a

\* 32-bit bitwise operations on naturals
RECURSIVE BitXor(_, _)
BitXor(a, b) ==
    IF a = 0 /\ b = 0 THEN 0
    ELSE ((a + b) % 2) + 2 * BitXor(a \div 2, b \div 2)

RECURSIVE BitAnd(_, _)
BitAnd(a, b) ==
    IF a = 0 \/ b = 0 THEN 0
    ELSE ((a % 2) * (b % 2)) + 2 * BitAnd(a \div 2, b \div 2)

RECURSIVE BitOr(_, _)
BitOr(a, b) ==
    IF a = 0 /\ b = 0 THEN 0
    ELSE (IF a % 2 = 1 \/ b % 2 = 1 THEN 1 ELSE 0)
         + 2 * BitOr(a \div 2, b \div 2)

-----------------------------------------------------------------------------
(* Instruction words and operand descriptors *)

\* raw source selector meaning "no swizzle"
NO_SRC_REG_SWIZZLE == 27
\* destination mask meaning "all components enabled"
NO_DEST_REG_MASK == 15

NopInstr ==
    [op |-> "NOP", dest |-> 0, src1 |-> 0, src2 |-> 0, src3 |-> 0,
     operand_desc_id |-> 0, address_register_index |-> 0,
     compare_x |-> "EQ", compare_y |-> "EQ",
     dest_offset |-> 0, num_instructions |-> 0,
     cond_op |-> "Or", refx |-> 0, refy |-> 0,
     bool_uniform_id |-> 0, int_uniform_id |-> 0]

\* common-form instruction  op dest, src1, src2  with descriptor d
Arith(o, d, s1, s2, desc) ==
    [NopInstr EXCEPT !.op = o, !.dest = d, !.src1 = s1, !.src2 = s2,
                     !.operand_desc_id = desc]

Cmp(s1, s2, cx, cy, desc) ==
    [NopInstr EXCEPT !.op = "CMP", !.src1 = s1, !.src2 = s2,
                     !.compare_x = cx, !.compare_y = cy,
                     !.operand_desc_id = desc]

\* flow-control instruction with a condition-code expression
FlowC(o, dst, n, cop, rx, ry) ==
    [NopInstr EXCEPT !.op = o, !.dest_offset = dst, !.num_instructions = n,
                     !.cond_op = cop, !.refx = rx, !.refy = ry]

\* flow-control instruction with a uniform (boolean or integer) operand
FlowU(o, dst, n, id) ==
    [NopInstr EXCEPT !.op = o, !.dest_offset = dst, !.num_instructions = n,
                     !.bool_uniform_id = id, !.int_uniform_id = id]

End == [NopInstr EXCEPT !.op = "END"]

\* register numbers as the instruction word encodes them
V(i) == i           \* source: input register v_i
R(i) == 16 + i      \* source or destination: temporary register r_i
C(i) == 32 + i      \* source: float uniform c_i
O(i) == i           \* destination: output register o_i

SwizzlePattern(mask, s1, s2, s3, n1, n2, n3) ==
    [dest_mask |-> mask, sel1 |-> s1, sel2 |-> s2, sel3 |-> s3,
     negate_src1 |-> n1, negate_src2 |-> n2, negate_src3 |-> n3]

IdentityPattern ==
    SwizzlePattern(NO_DEST_REG_MASK, NO_SRC_REG_SWIZZLE, NO_SRC_REG_SWIZZLE,
                   NO_SRC_REG_SWIZZLE, FALSE, FALSE, FALSE)

\* a program shorter than program memory is followed by NOP words
Pad(p) == p \o [k \in 1..(ProgSize - Len(p)) |-> NopInstr]

-----------------------------------------------------------------------------
(* Memory images.  program_code and swizzle_data are two arrays of 32-bit  *)
(* words; an image is the contents of such an array, and it reads as a     *)
(* program (through Instruction) or as an operand-descriptor table         *)
(* (through SwizzlePattern).  Images 1..8 and 13 and up hold programs,     *)
(* images 11 and 12 hold operand descriptors.                              *)

\* image read as instruction words:  *(Instruction*)&program_code[offset]
ProgramTable ==
    << \* 1: pass-through
       Pad(<< Arith("MOV", O(0), V(0), 0, 0),
              Arith("MOV", O(1), V(1), 0, 0),
              End >>),
       \* 2: LOOP i0 over a two-instruction body
       Pad(<< FlowU("LOOP", 2, 0, 0),
              Arith("ADD", R(0), R(0), C(0), 0),
              Arith("MOV", O(1), R(0), 0, 0),
              Arith("MOV", O(0), R(0), 0, 0),
              End >>),
       \* 3: LOOP i0 over a one-instruction body
       Pad(<< FlowU("LOOP", 1, 0, 0),
              Arith("ADD", R(0), R(0), C(0), 0),
              Arith("MOV", O(0), R(0), 0, 0),
              End >>),
       \* 4: CALLC before any CMP
       Pad(<< FlowC("CALLC", 3, 1, "JustX", 1, 0),
              Arith("MOV", O(1), V(1), 0, 0),
              End,
              Arith("MOV", O(0), V(0), 0, 0),
              End >>),
       \* 5: IFC before any CMP
       Pad(<< FlowC("IFC", 2, 1, "JustY", 0, 1),
              Arith("MOV", O(0), V(0), 0, 0),
              Arith("MOV", O(0), V(1), 0, 0),
              End >>),
       \* 6: JMPC before any CMP
       Pad(<< FlowC("JMPC", 2, 0, "Or", 1, 1),
              Arith("MOV", O(0), V(0), 0, 0),
              Arith("MOV", O(1), V(1), 0, 0),
              End >>),
       \* 7: SLT
       Pad(<< Arith("SLT", O(0), V(0), V(1), 0),
              End >>),
       \* 8: CMP, then CALLC on its result
       Pad(<< Cmp(V(0), V(1), "LT", "EQ", 0),
              FlowC("CALLC", 4, 1, "And", 1, 1),
              Arith("MOV", O(1), R(0), 0, 0),
              End,
              Arith("MOV", O(0), V(0), 0, 0),
              End >>)
    >>

\* images 13 and up: programs around one control-flow instruction
FlowPrograms ==
    << \* 13: JMPC taken after CMP
       Pad(<< Cmp(V(0), V(0), "EQ", "EQ", 0),
              FlowC("JMPC", 3, 0, "And", 1, 1),
              Arith("MOV", O(0), V(0), 0, 0),
              Arith("MOV", O(1), V(1), 0, 0),
              Arith("MOV", O(2), V(0), 0, 0),
              End >>),
       \* 14: JMPC not taken after CMP
       Pad(<< Cmp(V(0), V(0), "EQ", "EQ", 0),
              FlowC("JMPC", 3, 0, "And", 0, 1),
              Arith("MOV", O(0), V(0), 0, 0),
              Arith("MOV", O(1), V(1), 0, 0),
              Arith("MOV", O(2), V(0), 0, 0),
              End >>),
       \* 15: JMPU on b0
       Pad(<< FlowU("JMPU", 2, 0, 0),
              Arith("MOV", O(0), V(0), 0, 0),
              Arith("MOV", O(1), V(1), 0, 0),
              Arith("MOV", O(2), V(0), 0, 0),
              End >>),
       \* 16: IFC with an else range, after CMP
       Pad(<< Cmp(V(0), V(1), "LT", "LT", 0),
              FlowC("IFC", 3, 1, "JustX", 1, 0),
              Arith("MOV", O(0), V(0), 0, 0),
              Arith("MOV", O(1), V(1), 0, 0),
              Arith("MOV", O(2), V(0), 0, 0),
              End >>),
       \* 17: IFU on b0 without an else range
       Pad(<< FlowU("IFU", 2, 0, 0),
              Arith("MOV", O(0), V(0), 0, 0),
              Arith("MOV", O(1), V(1), 0, 0),
              End >>),
       \* 18: CALL inside the true range of an IFU
       Pad(<< FlowU("IFU", 3, 1, 0),
              Arith("MOV", O(0), V(0), 0, 0),
              FlowU("CALL", 4, 1, 0),
              Arith("MOV", O(1), V(1), 0, 0),
              Arith("MOV", O(2), V(0), 0, 0),
              End >>),
       \* 19: IFU on b1 inside the true range of an IFU on b0
       Pad(<< FlowU("IFU", 4, 1, 0),
              FlowU("IFU", 3, 1, 1),
              Arith("MOV", O(0), V(0), 0, 0),
              Arith("MOV", O(1), V(1), 0, 0),
              Arith("MOV", O(2), V(0), 0, 0),
              End >>),
       \* 20: CALL
       Pad(<< Arith("MOV", O(0), V(0), 0, 0),
              FlowU("CALL", 4, 1, 0),
              Arith("MOV", O(1), V(1), 0, 0),
              End,
              Arith("MOV", O(2), V(0), 0, 0),
              End >>),
       \* 21: CALLC on the result of CMP LT, EQ
       Pad(<< Cmp(V(0), V(1), "LT", "EQ", 0),
              FlowC("CALLC", 4, 1, "And", 1, 1),
              Arith("MOV", O(1), V(1), 0, 0),
              End,
              Arith("MOV", O(0), V(0), 0, 0),
              End >>),
       \* 22: CALLU on b0
       Pad(<< FlowU("CALLU", 3, 1, 0),
              Arith("MOV", O(1), V(1), 0, 0),
              End,
              Arith("MOV", O(0), V(0), 0, 0),
              End >>)
    >>

\* a descriptor word read as an instruction: the third selector of the
\* descriptor lies over the opcode field, and with the no-swizzle selector
\* there the opcode reads dph
DescriptorWord == [NopInstr EXCEPT !.op = "DPH"]

ProgramCode(img) ==
    IF img \in DOMAIN ProgramTable THEN ProgramTable[img]
    ELSE IF img - 12 \in DOMAIN FlowPrograms THEN FlowPrograms[img - 12]
    ELSE [k \in 1..ProgSize |-> DescriptorWord]

\* image read as operand descriptors:  SwizzlePattern{ swizzle_data[id] }
SwizzleData(img) ==
    CASE img = 11 -> << IdentityPattern >>
      [] img = 12 ->
            << SwizzlePattern(12, NO_SRC_REG_SWIZZLE, NO_SRC_REG_SWIZZLE,
                              NO_SRC_REG_SWIZZLE, TRUE, FALSE, FALSE) >>

\* Common::ComputeHash64 over an image: distinct images have distinct
\* hashes, and two hashes differ in bits above every entry offset
ComputeHash64(img) == 2 ^ (3 + img)


\* Setup: cache_key = hash(program_code) ^ hash(swizzle_data) ^ main_offset
CacheKey(code, swz, main) ==
    BitXor(BitXor(ComputeHash64(code), ComputeHash64(swz)), main)

-----------------------------------------------------------------------------
(* The JIT compiler.  A compilation context c holds the offset variable    *)
(* that offset_ptr points to, the looping flag, the code emitted so far,   *)
(* whether an assertion has failed, and the Compile_CALL frames on the     *)
(* host stack, each as the address of its CALL and the looping flag it     *)
(* was entered with.  Emitted code is a sequence of                        *)
(* nodes: "op" (the sequence emitted for one arithmetic instruction),      *)
(* "ret", "if" (a conditional forward branch around body / else) and       *)
(* "loop" (a body closed by decrement-and-branch).                         *)

Node(kind, instr, pc, body, else) ==
    [k |-> kind, instr |-> instr, pc |-> pc, body |-> body, else |-> else]

Emit(c, n) == [c EXCEPT !.code = Append(c.code, n)]

Fail(c, why) == [c EXCEPT !.status = why]

\* const JitFunction instr_table[64]
instr_table(op) ==
    CASE op \in {"ADD", "DP3", "DP4", "MUL", "FLR", "MAX", "MIN", "RCP",
                 "RSQ", "MOVA", "MOV", "SLTI", "NOP", "END", "CALL", "CALLC",
                 "CALLU", "LOOP", "CMP"} -> "Compile_" \o op
      [] op \in {"IFU", "IFC"} -> "Compile_IF"
      [] op \in {"JMPC", "JMPU"} -> "Compile_JMP"
      [] op \in {"MAD", "MADI"} -> "Compile_MAD"
      [] OTHER -> "nullptr"

RECURSIVE Compile_NextInstr(_, _)
RECURSIVE Compile_Until(_, _, _)

\* while (offset < limit) Compile_NextInstr(&offset);
Compile_Until(prog, limit, c) ==
    IF c.status = "ok" /\ c.offset < limit
    THEN Compile_Until(prog, limit, Compile_NextInstr(prog, c))
    ELSE c

\* Compile_Block: while (offset <= stop) ...; the enclosing offset variable
\* receives the final offset
Compile_Block(prog, stop, c) == Compile_Until(prog, stop + 1, c)

\* a CALL that leaves the caller's offset where the called range ended
Compile_CALL_KeepOffset(prog, instr, c) ==
    IF << c.offset - 1, c.looping >> \in c.active
    THEN Fail(c, "unbounded recursion")
    ELSE [Compile_Until(prog, instr.dest_offset + instr.num_instructions,
                        [c EXCEPT !.offset = instr.dest_offset,
                                  !.active = c.active \cup
                                      {<< c.offset - 1, c.looping >>}])
          EXCEPT !.active = c.active]

\* Compile_CALL: the range [dest, dest + n) is compiled in line through a
\* local offset variable; the enclosing one is not touched.  Nothing stops
\* the range from holding the CALL itself: a CALL met again under the
\* looping flag it was entered with repeats the same calls without end
Compile_CALL(prog, instr, c) ==
    LET frame == << c.offset - 1, c.looping >>
        Return(r) == [r EXCEPT !.offset = c.offset, !.active = c.active]
    IN  IF frame \in c.active THEN Fail(c, "unbounded recursion")
        ELSE Return(Compile_Until(
                        prog, instr.dest_offset + instr.num_instructions,
                        [c EXCEPT !.offset = instr.dest_offset,
                                  !.active = c.active \cup {frame}]))

\* Compile_CALLC / Compile_CALLU: condition, J_CC(CC_Z) over the call
Compile_CALLC(prog, instr, c) ==
    LET r == Compile_CALL(prog, instr, [c EXCEPT !.code = <<>>])
    IN  [r EXCEPT !.code =
            Append(c.code, Node("if", instr, c.offset - 1, r.code, <<>>))]

\* an IF whose true range takes in the word at dest_offset
Compile_IF_Inclusive(prog, instr, c) ==
    IF ~(instr.dest_offset > c.offset)
    THEN Fail(c, "Backwards if-statements not supported")
    ELSE LET t == Compile_Block(prog, instr.dest_offset,
                                [c EXCEPT !.code = <<>>])
         IN  [t EXCEPT !.code =
                 Append(c.code, Node("if", instr, c.offset - 1, t.code, <<>>))]

\* Compile_IF: J_CC(CC_Z) over the true range [PC + 1, dest_offset), and
\* unless num_instructions is 0 a jump over the else range that follows
Compile_IF(prog, instr, c) ==
    IF ~(instr.dest_offset > c.offset)
    THEN Fail(c, "Backwards if-statements not supported")
    ELSE LET t == Compile_Block(prog, instr.dest_offset - 1,
                                [c EXCEPT !.code = <<>>])
         IN  IF instr.num_instructions = 0 \/ t.status # "ok"
             THEN [t EXCEPT !.code =
                     Append(c.code,
                            Node("if", instr, c.offset - 1, t.code, <<>>))]
             ELSE LET e == Compile_Block(prog,
                                 instr.dest_offset + instr.num_instructions - 1,
                                 [t EXCEPT !.code = <<>>])
                  IN  [e EXCEPT !.code =
                         Append(c.code,
                                Node("if", instr, c.offset - 1, t.code, e.code))]

Compile_LOOP(prog, instr, c) ==
    IF ~(instr.dest_offset > c.offset)
    THEN Fail(c, "Backwards loops not supported")
    ELSE IF c.looping
    THEN Fail(c, "Nested loops not supported")
    ELSE LET b == Compile_Block(prog, instr.dest_offset,
                                [c EXCEPT !.looping = TRUE, !.code = <<>>])
         IN  [b EXCEPT !.looping = FALSE,
                       !.code = Append(c.code,
                                  Node("loop", instr, c.offset - 1, b.code, <<>>))]

\* Compile_JMP: J_CC(CC_NZ) over the block that ends with the word at
\* dest_offset
Compile_JMP(prog, instr, c) ==
    IF ~(instr.dest_offset > c.offset)
    THEN Fail(c, "Backwards jumps not supported")
    ELSE LET b == Compile_Block(prog, instr.dest_offset,
                                [c EXCEPT !.code = <<>>])
         IN  [b EXCEPT !.code =
                 Append(c.code, Node("if", instr, c.offset - 1, <<>>, b.code))]

\* Compile_NextInstr: fetch the word at *offset_ptr, advance the offset,
\* dispatch through instr_table
Compile_NextInstr(prog, c) ==
    IF c.offset >= Len(prog)
    THEN Fail(c, "read past program_code")
    ELSE
    LET instr == prog[c.offset + 1]
        pc == c.offset
        c1 == [c EXCEPT !.offset = pc + 1]
        f == instr_table(instr.op)
    IN  CASE f = "nullptr" -> c1
          [] f = "Compile_NOP" -> c1
          [] f = "Compile_END" -> Emit(c1, Node("ret", instr, pc, <<>>, <<>>))
          [] f = "Compile_CALL" -> Compile_CALL(prog, instr, c1)
          [] f \in {"Compile_CALLC", "Compile_CALLU"} ->
                Compile_CALLC(prog, instr, c1)
          [] f = "Compile_IF" -> Compile_IF(prog, instr, c1)
          [] f = "Compile_LOOP" -> Compile_LOOP(prog, instr, c1)
          [] f = "Compile_JMP" -> Compile_JMP(prog, instr, c1)
          [] OTHER -> Emit(c1, Node("op", instr, pc, <<>>, <<>>))

\* JitCompiler::Compile: prologue, then every word from main_offset to the
\* end of program memory
Compile(prog, main) ==
    Compile_Until(prog, Len(prog),
                  [offset |-> main, looping |-> FALSE, code |-> <<>>,
                   status |-> "ok", active |-> {}])

\* units of code space a compilation takes: the prologue and one per node
RECURSIVE EmittedSize(_)
EmittedSize(code) ==
    IF code = <<>> THEN 0
    ELSE 1 + EmittedSize(Head(code).body) + EmittedSize(Head(code).else)
           + EmittedSize(Tail(code))

CompiledSize(code) == 1 + EmittedSize(code)

-----------------------------------------------------------------------------
(* The unit state and the machine the emitted code runs on.  The register  *)
(* file is one block of 48 vectors: input 0..15, temporary 16..31, output  *)
(* 32..47.                                                                 *)

\* UnitState::InputOffset, in vectors from the start of the register file
InputOffset(src_reg) == src_reg

\* UnitState::OutputOffset, in vectors from the start of the register file
OutputOffset(dest) == IF dest < 16 THEN 32 + dest ELSE dest

ZeroRegisters == [s \in 0..47 |-> ZeroVec]

\* the host registers on entry to the compiled code, after its prologue:
\* the address and loop registers are zeroed, COND0 and COND1 (R13, R14)
\* are not written and hold what the caller left in them
Prologue(registers, r13, r14) ==
    [regs |-> registers,
     ADDROFFS_REG_0 |-> 0, ADDROFFS_REG_1 |-> 0, LOOPCOUNT_REG |-> 0,
     LOOPCOUNT |-> 0, LOOPINC |-> 0,
     COND0 |-> r13, COND1 |-> r14,
     halted |-> FALSE, fault |-> "", trace |-> <<>>]

Event(kind, instr, pc, m, v) ==
    [ev |-> kind, op |-> instr.op, pc |-> pc, c0 |-> m.COND0, c1 |-> m.COND1,
     lc |-> m.LOOPCOUNT_REG, v |-> v]

Log(m, e) == [m EXCEPT !.trace = Append(m.trace, e)]

\* SHUFPS dest, dest, imm
SHUFPS(v, imm) ==
    [i \in 1..4 |-> v[1 + ((imm \div (4 ^ (i - 1))) % 4)]]

\* the selector with its component order reversed, as SHUFPS wants it
ReverseSelector(sel) ==
    BitOr(BitOr(BitAnd(sel, 192) \div 64, BitAnd(sel, 3) * 64),
          BitOr(BitAnd(sel, 12) * 4, BitAnd(sel, 48) \div 4))

GetRawSelector(swiz, src_num) ==
    CASE src_num = 1 -> swiz.sel1
      [] src_num = 2 -> swiz.sel2
      [] OTHER -> swiz.sel3

NegateSrc(swiz, src_num) ==
    CASE src_num = 1 -> swiz.negate_src1
      [] src_num = 2 -> swiz.negate_src2
      [] OTHER -> swiz.negate_src3

\* the operand descriptor an instruction names
Descriptor(G, instr) == G.swz[instr.operand_desc_id + 1]

\* Compile_SwizzleSrc, the load: MOVAPS from the uniforms or from the register
\* file, at the displacement of the encoded register; for the offsettable
\* source of an instruction with a nonzero address register index the host
\* register ADDROFFS_REG_0, ADDROFFS_REG_1 or LOOPCOUNT_REG is added with
\* scale 1.  The ADDROFFS registers are held in units of 16 bytes (Compile_MOVA
\* shifts them left by 4), LOOPCOUNT_REG in bytes.  Nothing wraps the address:
\* a slot outside the bank's array reads what G.outside says lies there, and a
\* MOVAPS from an address that is not a multiple of 16 raises an exception.
LoadSource(instr, src_num, src_reg, m, G) ==
    LET uniform == src_reg >= 32
        index == IF uniform THEN src_reg - 32 ELSE InputOffset(src_reg)
        k == instr.address_register_index
        \* MOVAPS from the slot of the bank, or from what lies outside it
        Load(slot) ==
            IF (IF uniform THEN slot \in 0..95 ELSE slot \in 0..47)
            THEN [fault |-> "",
                  v |-> IF uniform THEN G.uniforms.f[slot] ELSE m.regs[slot]]
            ELSE IF G.outside.mapped
            THEN [fault |-> "", v |-> G.outside.v]
            ELSE [fault |-> "load from unmapped memory", v |-> ZeroVec]
        Access(indexed) ==
            IF indexed /\ k = 3 /\ m.LOOPCOUNT_REG % 16 # 0
            THEN [fault |-> "MOVAPS from a misaligned address", v |-> ZeroVec]
            ELSE Load(IF ~indexed THEN index
                      ELSE CASE k = 1 -> index + m.ADDROFFS_REG_0
                             [] k = 2 -> index + m.ADDROFFS_REG_1
                             [] k = 3 -> index + (m.LOOPCOUNT_REG \div 16))
        is_inverted == instr.op \in {"SLTI", "SGEI", "DPHI"}
        offset_src == IF is_inverted THEN 2 ELSE 1
    IN  Access(/\ instr.op \notin {"MAD", "MADI"}
               /\ src_num = offset_src
               /\ k # 0)

\* an operand load that hands SHUFPS the selector as the descriptor holds it
Compile_SwizzleSrc_NoReverse(instr, src_num, src_reg, m, G) ==
    LET swiz == Descriptor(G, instr)
        Negate(negate, shuffled) ==
            IF negate THEN [i \in 1..4 |-> FNeg(shuffled[i])] ELSE shuffled
    IN  Negate(NegateSrc(swiz, src_num),
               SHUFPS(LoadSource(instr, src_num, src_reg, m, G).v,
                      GetRawSelector(swiz, src_num)))

\* Compile_SwizzleSrc: load, SHUFPS unless the selector is the identity,
\* XORPS with NEGBIT when the source is negated
Compile_SwizzleSrc(instr, src_num, src_reg, m, G) ==
    LET swiz == Descriptor(G, instr)
        Shuffle(sel, loaded) ==
            IF sel # NO_SRC_REG_SWIZZLE
            THEN SHUFPS(loaded, ReverseSelector(sel))
            ELSE loaded
        Negate(negate, shuffled) ==
            IF negate THEN [i \in 1..4 |-> FNeg(shuffled[i])] ELSE shuffled
    IN  Negate(NegateSrc(swiz, src_num),
               Shuffle(GetRawSelector(swiz, src_num),
                       LoadSource(instr, src_num, src_reg, m, G).v))

\* BLENDPS dest, src, mask: lane i of src where bit i of mask is set
BLENDPS(dst, src, mask) ==
    [i \in 1..4 |-> IF (mask \div (2 ^ (i - 1))) % 2 = 1 THEN src[i] ELSE dst[i]]

\* a destination commit whose blend immediate is the write-mask itself
Compile_DestEnable_MaskNotReversed(instr, src, m, G) ==
    LET swiz == Descriptor(G, instr)
        slot == OutputOffset(instr.dest)
    IN  [m EXCEPT !.regs[slot] = BLENDPS(m.regs[slot], src, swiz.dest_mask)]

\* Compile_DestEnable: a full store, or load, blend and store.  With SSE4.1
\* the blend is BLENDPS with the write-mask bit-reversed; without,
\* XMM4 = UNPCKHPS(src, SCRATCH), SCRATCH = UNPCKLPS(SCRATCH, src) and a
\* SHUFPS whose immediate picks for each lane the source or the destination
\* half of its pair
Compile_DestEnable(instr, src, m, G) ==
    LET swiz == Descriptor(G, instr)
        slot == OutputOffset(instr.dest)
        dm == swiz.dest_mask
        mask == BitOr(BitOr(BitAnd(dm, 1) * 8, BitAnd(dm, 8) \div 8),
                      BitOr(BitAnd(dm, 2) * 2, BitAnd(dm, 4) \div 2))
        DestComponentEnabled(i) == BitAnd(dm, 8 \div (2 ^ i)) # 0
        UNPCKHPS(a, b) == << a[3], b[3], a[4], b[4] >>
        UNPCKLPS(a, b) == << a[1], b[1], a[2], b[2] >>
        \* SHUFPS a, b, imm: two lanes of a, then two lanes of b
        SHUFPS2(a, b, imm) ==
            << a[1 + (imm % 4)], a[1 + ((imm \div 4) % 4)],
               b[1 + ((imm \div 16) % 4)], b[1 + ((imm \div 64) % 4)] >>
        sel == (IF DestComponentEnabled(0) THEN 1 ELSE 0)
               + (IF DestComponentEnabled(1) THEN 3 ELSE 2) * 4
               + (IF DestComponentEnabled(2) THEN 0 ELSE 1) * 16
               + (IF DestComponentEnabled(3) THEN 2 ELSE 3) * 64
        Blend(SCRATCH) ==
            IF G.sse4_1 THEN BLENDPS(SCRATCH, src, mask)
            ELSE SHUFPS2(UNPCKLPS(SCRATCH, src), UNPCKHPS(src, SCRATCH), sel)
    IN  IF dm = NO_DEST_REG_MASK
        THEN [m EXCEPT !.regs[slot] = src]
        ELSE [m EXCEPT !.regs[slot] = Blend(m.regs[slot])]

\* the CMPPS / CMPSS predicates
CmpPredicate(pred, a, b) ==
    LET unordered == (a = NaN \/ b = NaN)
    IN  CASE pred = "CMP_EQ" -> ~unordered /\ a = b
          [] pred = "CMP_NEQ" -> unordered \/ a # b
          [] pred = "CMP_LT" -> ~unordered /\ a < b
          [] pred = "CMP_LE" -> ~unordered /\ a <= b
          [] pred = "CMP_NLE" -> unordered \/ ~(a <= b)
          [] pred = "CMP_NLT" -> unordered \/ ~(a < b)

\* static const u8 cmp[] in Compile_CMP
cmp(compare_op) ==
    CASE compare_op = "EQ" -> "CMP_EQ"
      [] compare_op = "NEQ" -> "CMP_NEQ"
      [] compare_op = "LT" -> "CMP_LT"
      [] compare_op = "LE" -> "CMP_LE"
      [] compare_op = "GT" -> "CMP_NLE"
      [] compare_op = "GE" -> "CMP_NLT"

Compile_ADD(instr, m, G) ==
    LET s1 == Compile_SwizzleSrc(instr, 1, instr.src1, m, G)
        s2 == Compile_SwizzleSrc(instr, 2, instr.src2, m, G)
    IN  Compile_DestEnable(instr, [i \in 1..4 |-> FAdd(s1[i], s2[i])], m, G)

Compile_MOV(instr, m, G) ==
    Compile_DestEnable(instr, Compile_SwizzleSrc(instr, 1, instr.src1, m, G),
                       m, G)

\* Compile_CMP.  A comparison mask lane is all ones (-1 as a signed dword) or
\* 0; MOVQ takes lanes 1 and 2 as the low and high dword of a host register;
\* SHR(32, COND0, 31) leaves the top bit of the low dword, SHR(64, COND1, 63)
\* the top bit of the high dword.  Lanes CMPSS leaves alone hold float bits,
\* whose top bit is the sign.
Compile_CMP(instr, m, G) ==
    LET top(dword) == IF dword < 0 THEN 1 ELSE 0
        same == instr.compare_x = instr.compare_y
        Compare(s1, s2) ==
            LET mask(op, i) ==
                    IF CmpPredicate(cmp(op), s1[i], s2[i]) THEN 0 - 1 ELSE 0
                CMPPS(op) == [i \in 1..4 |-> mask(op, i)]
                \* MOVQ_xmm(R(COND0), ...): <<low dword, high dword>>
                q0 == IF same THEN << CMPPS(instr.compare_x)[1],
                                      CMPPS(instr.compare_x)[2] >>
                      ELSE << mask(instr.compare_x, 1), 0 >>
                q1 == IF same THEN q0
                      ELSE << CMPPS(instr.compare_y)[1],
                              CMPPS(instr.compare_y)[2] >>
            IN  [m EXCEPT !.COND0 = top(q0[1]), !.COND1 = top(q1[2])]
    IN  Compare(Compile_SwizzleSrc(instr, 1, instr.src1, m, G),
                Compile_SwizzleSrc(instr, 2, instr.src2, m, G))

\* a condition sequence that XORs with the reference bits themselves
Compile_EvaluateCondition_NoFlip(instr, m) ==
    LET x == BitXor(m.COND0, instr.refx)
        y == BitXor(m.COND1, instr.refy)
    IN  CASE instr.cond_op = "Or" -> BitOr(x, y)
          [] instr.cond_op = "And" -> BitAnd(x, y)
          [] instr.cond_op = "JustX" -> x
          [] instr.cond_op = "JustY" -> y

\* Compile_EvaluateCondition: the value left in EAX, whose zero flag the
\* following branch tests
Compile_EvaluateCondition(instr, m) ==
    LET x == BitXor(m.COND0, BitXor(instr.refx, 1))
        y == BitXor(m.COND1, BitXor(instr.refy, 1))
    IN  CASE instr.cond_op = "Or" -> BitOr(x, y)
          [] instr.cond_op = "And" -> BitAnd(x, y)
          [] instr.cond_op = "JustX" -> x
          [] instr.cond_op = "JustY" -> y

\* Compile_UniformCondition: CMP byte [UNIFORMS + b + id], 0
Compile_UniformCondition(instr, G) ==
    IF G.uniforms.b[instr.bool_uniform_id] THEN 1 ELSE 0

ConditionValue(instr, m, G) ==
    IF instr.op \in {"IFU", "CALLU", "JMPU"}
    THEN Compile_UniformCondition(instr, G)
    ELSE Compile_EvaluateCondition(instr, m)

\* a MOVA that stores both address registers whenever it stores one
Compile_MOVA_BothWritten(instr, m, G) ==
    LET swiz == Descriptor(G, instr)
        Store(s1) == [m EXCEPT !.ADDROFFS_REG_0 = s1[1],
                               !.ADDROFFS_REG_1 = s1[2]]
    IN  IF BitAnd(swiz.dest_mask, 12) = 0 THEN m
        ELSE Store(Compile_SwizzleSrc(instr, 1, instr.src1, m, G))

\* Compile_MOVA: nothing when neither x nor y is enabled; else the source
\* converted to integers, x into ADDROFFS_REG_0 and y into ADDROFFS_REG_1 as
\* enabled, each sign-extended and shifted left by 4
Compile_MOVA(instr, m, G) ==
    LET \* one lane: the integer the rounding control of MXCSR selects (of
        \* n + 1/2 the even neighbour when rounding to nearest, the
        \* neighbour nearer zero when rounding toward zero); the integer
        \* indefinite value 0x80000000 for a NaN
        CVTPS2DQ(a) ==
            CASE a = NaN -> 0 - 2147483647 - 1
              [] IsHalf(a) ->
                    IF G.rc = "nearest"
                    THEN (IF (a - 2000) % 2 = 0 THEN a - 2000
                          ELSE a - 2000 + 1)
                    ELSE (IF a - 2000 >= 0 THEN a - 2000 ELSE a - 2000 + 1)
              [] OTHER -> a
        swiz == Descriptor(G, instr)
        Store(x, y, s1) ==
            [m EXCEPT
               !.ADDROFFS_REG_0 = IF x THEN CVTPS2DQ(s1[1]) ELSE @,
               !.ADDROFFS_REG_1 = IF y THEN CVTPS2DQ(s1[2]) ELSE @]
    IN  Store(BitAnd(swiz.dest_mask, 8) # 0, BitAnd(swiz.dest_mask, 4) # 0,
              Compile_SwizzleSrc(instr, 1, instr.src1, m, G))

\* ANDPS with ONE, one lane, on the bits of a float: an all-ones mask gives
\* 1.0 and zero gives 0.0; of a float the sign, the top exponent bit and the
\* mantissa are cleared, which leaves 1.0, 0.0 or, from magnitudes of 4 and
\* more, a float with an exponent field below 8 (written 998)
ANDPS_ONE(a) ==
    CASE a = NaN -> 1
      [] a = 0 -> 0
      [] Abs(a) = 1 -> 1
      [] Abs(a) \in {2, 3} -> 0
      [] OTHER -> 998

\* Compile_SLTI: both sources through Compile_SwizzleSrc as source number 1;
\* CMPSS compares lane 1 and leaves the other lanes of SRC1 as they are;
\* ANDPS with ONE
Compile_SLTI(instr, m, G) ==
    LET Compare(s1, s2) ==
            [i \in 1..4 |->
                IF i = 1
                THEN (IF CmpPredicate("CMP_LT", s1[1], s2[1]) THEN 1 ELSE 0)
                ELSE ANDPS_ONE(s1[i])]
    IN  Compile_DestEnable(instr,
                           Compare(Compile_SwizzleSrc(instr, 1, instr.src1, m, G),
                                   Compile_SwizzleSrc(instr, 1, instr.src2, m, G)),
                           m, G)

\* Compile_RCP: RCPPS on all four lanes of the swizzled source; a lane of the
\* result, the approximation of 1 / a, is kept as the operation and its
\* argument
Compile_RCP(instr, m, G) ==
    LET s1 == Compile_SwizzleSrc(instr, 1, instr.src1, m, G)
    IN  Compile_DestEnable(instr, [i \in 1..4 |-> [f |-> "RCPPS", of |-> s1[i]]],
                           m, G)

\* Compile_RSQ: RSQRTPS on all four lanes of the swizzled source; a lane of
\* the result, the approximation of 1 / sqrt(a), likewise
Compile_RSQ(instr, m, G) ==
    LET s1 == Compile_SwizzleSrc(instr, 1, instr.src1, m, G)
    IN  Compile_DestEnable(instr,
                           [i \in 1..4 |-> [f |-> "RSQRTPS", of |-> s1[i]]],
                           m, G)

\* the code emitted for one instruction of the table, run on m; a source
\* load that raises an exception ends the run
ExecOp(instr, pc, m, G) ==
    LET m1 == Log(m, Event("op", instr, pc, m, 0))
        \* the (source number, register) pairs the handler loads
        loads == CASE instr.op \in {"ADD", "CMP"} ->
                        { <<1, instr.src1>>, <<2, instr.src2>> }
                   [] instr.op = "SLTI" ->
                        { <<1, instr.src1>>, <<1, instr.src2>> }
                   [] instr.op \in {"MOV", "RCP", "RSQ"} ->
                        { <<1, instr.src1>> }
                   [] instr.op = "MOVA" ->
                        IF BitAnd(Descriptor(G, instr).dest_mask, 12) = 0
                        THEN {} ELSE { <<1, instr.src1>> }
                   [] OTHER -> {}
        faults == { LoadSource(instr, l[1], l[2], m, G).fault : l \in loads }
                    \ {""}
    IN  IF faults # {}
        THEN [m1 EXCEPT !.fault = CHOOSE f \in faults : TRUE]
        ELSE
        CASE instr.op = "ADD" -> Compile_ADD(instr, m1, G)
          [] instr.op = "MOV" -> Compile_MOV(instr, m1, G)
          [] instr.op = "CMP" -> Compile_CMP(instr, m1, G)
          [] instr.op = "MOVA" -> Compile_MOVA(instr, m1, G)
          [] instr.op = "SLTI" -> Compile_SLTI(instr, m1, G)
          [] instr.op = "RCP" -> Compile_RCP(instr, m1, G)
          [] instr.op = "RSQ" -> Compile_RSQ(instr, m1, G)
          [] OTHER -> [m1 EXCEPT !.fault = "opcode outside the model"]

\* Compile_LOOP, the loop set-up: LOOPCOUNT = x + 1, LOOPCOUNT_REG = y,
\* LOOPINC = z of the integer uniform
LoopSetup(instr, m, G) ==
    LET u == G.uniforms.i[instr.int_uniform_id]
    IN  [m EXCEPT !.LOOPCOUNT = u[1] + 1, !.LOOPCOUNT_REG = u[2],
                  !.LOOPINC = u[3]]

\* Compile_LOOP, the loop end: ADD LOOPCOUNT_REG, LOOPINC; SUB LOOPCOUNT, 1
\* (the model's values stay far below 2^32)
LoopStep(m) ==
    [m EXCEPT !.LOOPCOUNT_REG = m.LOOPCOUNT_REG + m.LOOPINC,
              !.LOOPCOUNT = m.LOOPCOUNT - 1]

RECURSIVE ExecSeq(_, _, _, _)
RECURSIVE ExecLoop(_, _, _)

ExecNode(n, m, G) ==
    CASE n.k = "op" -> ExecOp(n.instr, n.pc, m, G)
      [] n.k = "ret" -> [m EXCEPT !.halted = TRUE]
      [] n.k = "if" ->
            LET v == ConditionValue(n.instr, m, G)
                m1 == Log(m, Event("cond", n.instr, n.pc, m, v))
            IN  IF v # 0 THEN ExecSeq(n.body, 1, m1, G)
                ELSE ExecSeq(n.else, 1, m1, G)
      [] n.k = "loop" -> ExecLoop(n, LoopSetup(n.instr, m, G), G)

ExecSeq(code, i, m, G) ==
    IF m.halted \/ m.fault # "" \/ i > Len(code) THEN m
    ELSE ExecSeq(code, i + 1, ExecNode(code[i], m, G), G)

\* body; loop end; J_CC(CC_NZ, loop_start)
ExecLoop(n, m, G) ==
    LET b == ExecSeq(n.body, 1, m, G)
    IN  IF b.halted \/ b.fault # "" THEN b
        ELSE LET m2 == LoopStep(b)
             IN  IF m2.LOOPCOUNT # 0 THEN ExecLoop(n, m2, G) ELSE m2

\* jit_shader(&state.registers): the prologue, then the emitted code; code
\* that does not reach a RET runs on into whatever follows it
RunJit(entry, registers, r13, r14, unif) ==
    LET \* the programs run through Run hold no indexed load; nothing in
        \* the sources sets MXCSR, whose rounding control at the start of a
        \* process is round to nearest; the host has SSE4.1
        G == [swz |-> SwizzleData(entry.swz), uniforms |-> unif,
              outside |-> [mapped |-> FALSE, v |-> ZeroVec],
              rc |-> "nearest", sse4_1 |-> TRUE]
        m == ExecSeq(entry.code, 1, Prologue(registers, r13, r14), G)
    IN  IF m.halted \/ m.fault # "" THEN m
        ELSE [m EXCEPT !.fault = "ran past the end of the compiled code"]

-----------------------------------------------------------------------------
(* The interpreter: its source is not part of the sources at hand, so it   *)
(* is written from the specification's interpreter section (operand        *)
(* loading, destination commit, instruction table, control flow).          *)

InterpStart(registers) ==
    [regs |-> registers,
     ADDROFFS_REG_0 |-> 0, ADDROFFS_REG_1 |-> 0, LOOPCOUNT_REG |-> 0,
     LOOPCOUNT |-> 0, LOOPINC |-> 0,
     COND0 |-> 0, COND1 |-> 0,
     halted |-> FALSE, fault |-> "", trace |-> <<>>]

\* operand loading: new[c] = src[selector[c]], then the negate flag
Interp_Source(instr, src_num, src_reg, st, G) ==
    LET swiz == Descriptor(G, instr)
        sel == GetRawSelector(swiz, src_num)
        src == IF src_reg >= 32 THEN G.uniforms.f[src_reg - 32]
               ELSE st.regs[src_reg]
        new == [c \in 1..4 |-> src[1 + ((sel \div (4 ^ (4 - c))) % 4)]]
    IN  IF NegateSrc(swiz, src_num) THEN [c \in 1..4 |-> FNeg(new[c])]
        ELSE new

\* destination commit: lanes whose mask bit is set take the computed lane
Interp_Commit(instr, val, st, G) ==
    LET dm == Descriptor(G, instr).dest_mask
        slot == IF instr.dest < 16 THEN 32 + instr.dest ELSE instr.dest
    IN  [st EXCEPT !.regs[slot] =
            [c \in 1..4 |-> IF (dm \div (2 ^ (4 - c))) % 2 = 1
                            THEN val[c] ELSE st.regs[slot][c]]]

Interp_Compare(compare_op, a, b) ==
    LET ordered == (a # NaN /\ b # NaN)
    IN  CASE compare_op = "EQ" -> ordered /\ a = b
          [] compare_op = "NEQ" -> ~ordered \/ a # b
          [] compare_op = "LT" -> ordered /\ a < b
          [] compare_op = "LE" -> ordered /\ a <= b
          [] compare_op = "GT" -> ordered /\ a > b
          [] compare_op = "GE" -> ordered /\ a >= b

Interp_Op(instr, pc, st, G) ==
    LET s1 == Interp_Source(instr, 1, instr.src1, st, G)
        s2 == Interp_Source(instr, 2, instr.src2, st, G)
        st1 == Log(st, Event("op", instr, pc, st, 0))
    IN  CASE instr.op = "ADD" ->
                Interp_Commit(instr, [c \in 1..4 |-> FAdd(s1[c], s2[c])], st1, G)
          [] instr.op = "MOV" -> Interp_Commit(instr, s1, st1, G)
          [] instr.op \in {"SLT", "SLTI"} ->
                Interp_Commit(instr,
                    [c \in 1..4 |->
                        IF s1[c] # NaN /\ s2[c] # NaN /\ s1[c] < s2[c]
                        THEN 1 ELSE 0], st1, G)
          [] instr.op = "CMP" ->
                [st1 EXCEPT
                   !.COND0 = IF Interp_Compare(instr.compare_x, s1[1], s2[1])
                             THEN 1 ELSE 0,
                   !.COND1 = IF Interp_Compare(instr.compare_y, s1[2], s2[2])
                             THEN 1 ELSE 0]
          [] OTHER -> [st1 EXCEPT !.fault = "opcode outside the model"]

\* condition evaluation on the two condition-code bits
Interp_Condition(instr, st, G) ==
    LET x == (st.COND0 = instr.refx)
        y == (st.COND1 = instr.refy)
    IN  IF instr.op \in {"IFU", "CALLU", "JMPU"}
        THEN G.uniforms.b[instr.bool_uniform_id]
        ELSE CASE instr.cond_op = "Or" -> x \/ y
               [] instr.cond_op = "And" -> x /\ y
               [] instr.cond_op = "JustX" -> x
               [] instr.cond_op = "JustY" -> y

RECURSIVE Interp_Range(_, _, _, _, _)
RECURSIVE Interp_Loop(_, _, _, _, _)

\* run the words [pc, end) until END
Interp_Range(prog, pc, end, st, G) ==
    IF st.halted \/ st.fault # "" \/ pc >= end THEN st
    ELSE IF pc >= Len(prog) THEN [st EXCEPT !.fault = "read past program_code"]
    ELSE
    LET instr == prog[pc + 1]
        op == instr.op
        flow == op \in {"IFU", "IFC", "JMPU", "JMPC", "LOOP"}
        cond == Interp_Condition(instr, st, G)
        st1 == IF op \in {"IFU", "IFC", "JMPU", "JMPC", "CALLU", "CALLC"}
               THEN Log(st, Event("cond", instr, pc, st, IF cond THEN 1 ELSE 0))
               ELSE st
        dest == instr.dest_offset
        n == instr.num_instructions
    IN  CASE op = "END" -> [st EXCEPT !.halted = TRUE]
          [] flow /\ dest <= pc ->
                [st EXCEPT !.fault = "backwards transfer not supported"]
          [] op = "CALL" \/ (op \in {"CALLC", "CALLU"} /\ cond) ->
                Interp_Range(prog, pc + 1, end,
                             Interp_Range(prog, dest, dest + n, st1, G), G)
          [] op \in {"CALLC", "CALLU"} ->
                Interp_Range(prog, pc + 1, end, st1, G)
          [] op \in {"IFU", "IFC"} ->
                Interp_Range(prog, dest + n, end,
                    IF cond THEN Interp_Range(prog, pc + 1, dest, st1, G)
                    ELSE Interp_Range(prog, dest, dest + n, st1, G), G)
          [] op \in {"JMPU", "JMPC"} ->
                Interp_Range(prog, IF cond THEN dest ELSE pc + 1, end, st1, G)
          [] op = "LOOP" ->
                Interp_Range(prog, dest + 1, end,
                    Interp_Loop(prog, pc, G.uniforms.i[instr.int_uniform_id][1] + 1,
                        [st EXCEPT !.LOOPCOUNT_REG =
                                       G.uniforms.i[instr.int_uniform_id][2]],
                        G), G)
          [] op \in {"ADD", "MOV", "SLT", "SLTI", "CMP"} ->
                Interp_Range(prog, pc + 1, end, Interp_Op(instr, pc, st, G), G)
          [] OTHER -> Interp_Range(prog, pc + 1, end, st, G)

\* the body [pc + 1, dest] for each remaining iteration, the loop counter
\* growing by the increment after each
Interp_Loop(prog, pc, remaining, st, G) ==
    IF remaining = 0 \/ st.halted \/ st.fault # "" THEN st
    ELSE LET instr == prog[pc + 1]
             b == Interp_Range(prog, pc + 1, instr.dest_offset + 1, st, G)
         IN  Interp_Loop(prog, pc, remaining - 1,
                 [b EXCEPT !.LOOPCOUNT_REG =
                      b.LOOPCOUNT_REG + G.uniforms.i[instr.int_uniform_id][3]],
                 G)

\* RunInterpreter(state): from program_counter to END
RunInterpreter(code, swz, main, registers, unif) ==
    LET G == [swz |-> SwizzleData(swz), uniforms |-> unif]
        st == Interp_Range(ProgramCode(code), main, ProgSize,
                           InterpStart(registers), G)
    IN  IF st.halted \/ st.fault # "" THEN st
        ELSE [st EXCEPT !.fault = "ran past the end of program_code"]

-----------------------------------------------------------------------------
(* The dispatcher: Setup, Shutdown, Run *)

\* Regs::VSOutputAttributes::INVALID
INVALID == 31

Triple(code, swz, main) == <<code, swz, main>>

CurrentTriple == Triple(program_code, swizzle_data, main_offset)

\* a CompiledShader*: the address of the code, the code emitted there, and
\* (for the record) what it was compiled from
Entry(ptr, code, triple) == [ptr |-> ptr, code |-> code, from |-> triple,
                             swz |-> triple[2]]

\* the null CompiledShader*
NullShader == Entry(0 - 1, <<>>, <<0, 0, 0>>)

EmptyMap == [k \in {} |-> NullShader]

\* an emplace that drops the entry
emplace_Dropping(map, key, shader) == map

\* shader_map.emplace(key, shader): inserts unless the key is present
emplace(map, key, shader) ==
    IF key \in DOMAIN map THEN map
    ELSE [k \in (DOMAIN map) \cup {key} |->
             IF k = key THEN shader ELSE map[k]]

\* shader_map.clear()
clear(map) == EmptyMap

\* a condition that lets one attribute too many through
AttributeLoaded_Inclusive(num_attributes, i) == num_attributes >= i

\* the condition of the i-th line of "Setup input register table"
AttributeLoaded(num_attributes, i) == num_attributes > i

\* Run, "Setup input register table": sixteen conditional stores, in order
RECURSIVE SetupInputRegisters(_, _, _, _, _)
SetupInputRegisters(registers, map, input, num_attributes, i) ==
    IF i > 15 THEN registers
    ELSE SetupInputRegisters(
             IF AttributeLoaded(num_attributes, i)
             THEN [registers EXCEPT ![map[i]] = input[i]]
             ELSE registers,
             map, input, num_attributes, i + 1)

\* std::fabs
FAbs(x) == IF x = NaN THEN NaN ELSE Abs(x)

\* std::fmin: the other argument when one is a NaN
FMin(a, b) == IF a = NaN THEN b ELSE IF b = NaN THEN a ELSE Min(a, b)

\* OutputVertex ret;  -- not initialised: every slot holds what was there.
\* The record is addressed as a flat array through a 5-bit semantic, so a
\* write lands in one of 32 slots; the 24 fields are slots 0..23.
Uninitialised(g) == [k \in 0..31 |-> g]

\* Run, "Setup output data": for i < 7, for comp < 4, in that order
RECURSIVE SetupOutputData(_, _, _, _)
SetupOutputData(out, registers, attributes, k) ==
    IF k >= 7 * 4 THEN out
    ELSE LET i == k \div 4
             comp == k % 4
             semantic == attributes[i + 1][comp + 1]
         IN  SetupOutputData(
                 IF semantic # INVALID
                 THEN [out EXCEPT ![semantic] = registers[32 + i][comp + 1]]
                 ELSE [out EXCEPT ![semantic] = 0],
                 registers, attributes, k + 1)

\* a saturation that forgets the absolute value
Saturate_NoAbs(x) == FMin(x, 1)

\* one colour component: FromFloat32(fmin(fabs(ToFloat32()), 1.0f)); a
\* float24 is stored as the float it converts to and from, which is also how
\* the emitted code reads and writes the registers
Saturate(x) == FMin(FAbs(x), 1)

\* Run, the colour loop: the four slots of ret.color
SaturateColor(out) ==
    [k \in 0..31 |-> IF k \in 8..11 THEN Saturate(out[k]) ELSE out[k]]

OutputVertex(registers, attributes, g) ==
    SaturateColor(SetupOutputData(Uninitialised(g), registers, attributes, 0))

\* the back-end Run calls, on the registers with the inputs loaded
RunShader(jit, entry, code, swz, main, registers, r13, r14, unif) ==
    IF jit THEN RunJit(entry, registers, r13, r14, unif)
    ELSE RunInterpreter(code, swz, main, registers, unif)

-----------------------------------------------------------------------------
(* Inputs of the model *)

\* (program_code, swizzle_data, main_offset) as the command processor
\* uploads them
Uploads == { Triple(1, 11, 0), Triple(2, 11, 0) }

\* uploads that exercise the cache: a program, the same program with another
\* descriptor table or another entry offset, other programs, and the two
\* arrays' contents exchanged
CacheUploads ==
    { Triple(1, 11, 0), Triple(11, 1, 0), Triple(1, 12, 0), Triple(2, 11, 0),
      Triple(1, 11, 1), Triple(3, 11, 0) }

\* the programs run through the dispatcher
VertexUploads == { Triple(1, 11, 0), Triple(2, 11, 0) }

\* the programs run through the two back-ends
ShaderUploads ==
    { Triple(1, 11, 0), Triple(2, 11, 0), Triple(3, 11, 0), Triple(4, 11, 0),
      Triple(5, 11, 0), Triple(6, 11, 0), Triple(7, 11, 0), Triple(8, 11, 0),
      Triple(1, 12, 1) }

\* integer uniforms {count, start, increment, unused}
IntUniforms == { <<0, 1, 2, 0>>, <<MaxCount, 1, 2, 0>> }

UniformChoices ==
    { [b |-> [k \in 0..15 |-> FALSE],
       i |-> [k \in 0..3 |-> u],
       f |-> [k \in 0..95 |-> Splat(1)]] : u \in IntUniforms }

\* uniforms for the control-flow programs: one boolean set, b0 or b1
FlowUniforms ==
    { [b |-> [k \in 0..15 |-> k = t],
       i |-> [k \in 0..3 |-> <<MaxCount, 1, 2, 0>>],
       f |-> [k \in 0..95 |-> Splat(1)]] : t \in {0, 1} }

\* the control-flow programs
FlowUploads == { Triple(12 + k, 11, 0) : k \in DOMAIN FlowPrograms }

IdentityMap == [i \in 0..15 |-> i]

\* every attribute to register 0
AliasMap == [i \in 0..15 |-> 0]

AttributeMaps == { IdentityMap, AliasMap }

NoOutput == <<INVALID, INVALID, INVALID, INVALID>>

\* o0 to pos
PositionOnly ==
    << <<0, 1, 2, 3>>, NoOutput, NoOutput, NoOutput, NoOutput, NoOutput,
       NoOutput >>

\* o0 to color, o1.xy to pos.xy
ColorAndPosition ==
    << <<8, 9, 10, 11>>, <<0, 1, INVALID, INVALID>>, NoOutput, NoOutput,
       NoOutput, NoOutput, NoOutput >>

OutputMaps == { PositionOnly, ColorAndPosition }

VertexA == [i \in 0..15 |-> Vec(i + 1, 2, 3, 4)]

VertexB == [i \in 0..15 |-> Vec(0 - (i + 2), 0, NaN, 100)]

InputVertices == { VertexA, VertexB }

NumAttributes == {0, 2, 16}

\* what an uninitialised float of the returned record may hold
Garbage == {0, 0 - 7}

\* what the caller may have left in R13 and R14
CallerRegisters == {0, 1}

-----------------------------------------------------------------------------
(* State machine *)

NoInput == [i \in 0..15 |-> ZeroVec]

\* obs records, of the last call: which it was, whether Setup compiled and
\* under which key, the arguments of Run, the trace of the back-end, the
\* record before saturation, and what the interpreter returns for the same
\* call; and of the calls so far: the keys and (triple, entrypoint) pairs
\* Setup has selected since the cache was last empty, the keys ever
\* compiled, whether Setup has been called since the program last changed,
\* the number of Runs, and the first Run's arguments and result
NoRun == [set |-> FALSE, args |-> <<>>, ret |-> Uninitialised(0)]

Obs(call) ==
    [call |-> call, compiled |-> FALSE, recompiled |-> FALSE, key |-> 0,
     keys |-> obs.keys, selected |-> obs.selected, ever |-> obs.ever,
     fresh |-> obs.fresh,
     input |-> NoInput, num_attributes |-> 0, jit |-> FALSE,
     g |-> 0, r13 |-> 0, r14 |-> 0, runs |-> obs.runs, first |-> obs.first,
     trace |-> <<>>, mapped |-> Uninitialised(0),
     interp_ok |-> FALSE, ret_interp |-> Uninitialised(0)]

InitFixed ==
    /\ shader_map = EmptyMap
    /\ jit_shader = NullShader
    /\ code_ptr = 0
    /\ state = [registers |-> ZeroRegisters,
                conditional_code |-> <<FALSE, FALSE>>,
                program_counter |-> 0]
    /\ ret = Uninitialised(0)
    /\ crashed = FALSE
    /\ obs = [call |-> "Init", compiled |-> FALSE, recompiled |-> FALSE,
              key |-> 0, keys |-> {}, selected |-> {}, ever |-> {},
              fresh |-> FALSE,
              input |-> NoInput, num_attributes |-> 0, jit |-> FALSE,
              g |-> 0, r13 |-> 0, r14 |-> 0, runs |-> 0, first |-> NoRun,
              trace |-> <<>>, mapped |-> Uninitialised(0),
              interp_ok |-> FALSE, ret_interp |-> Uninitialised(0)]

InitConfig(uploads, flags, unifs, maps, outs) ==
    /\ g_shader_jit_enabled \in flags
    /\ \E t \in uploads :
          program_code = t[1] /\ swizzle_data = t[2] /\ main_offset = t[3]
    /\ uniforms \in unifs
    /\ input_register_map \in maps
    /\ vs_output_attributes \in outs
    /\ InitFixed

Init == InitConfig(Uploads, {TRUE}, {CHOOSE u \in UniformChoices : TRUE},
                   {IdentityMap}, {PositionOnly})

config == <<uniforms, input_register_map, vs_output_attributes>>

\* the command processor writes program memory, the descriptor table and
\* the entry offset
LoadProgram(t) ==
    /\ ~crashed
    /\ t # CurrentTriple
    /\ program_code' = t[1]
    /\ swizzle_data' = t[2]
    /\ main_offset' = t[3]
    /\ obs' = [Obs("LoadProgram") EXCEPT !.fresh = FALSE]
    /\ UNCHANGED <<g_shader_jit_enabled, config, shader_map, jit_shader,
                   code_ptr, state, ret, crashed>>

\* the user switches the JIT on or off
SetJitEnabled(b) ==
    /\ ~crashed
    /\ b # g_shader_jit_enabled
    /\ g_shader_jit_enabled' = b
    /\ obs' = Obs("SetJitEnabled")
    /\ UNCHANGED <<program_code, swizzle_data, main_offset, config,
                   shader_map, jit_shader, code_ptr, state, ret, crashed>>

\* void Setup(UnitState& state)
Setup ==
    /\ ~crashed
    /\ LET key == CacheKey(program_code, swizzle_data, main_offset)
           c == Compile(ProgramCode(program_code), main_offset)
           shader == Entry(code_ptr, c.code, CurrentTriple)
       IN  IF ~g_shader_jit_enabled
           THEN /\ obs' = [Obs("Setup") EXCEPT !.fresh = TRUE]
                /\ UNCHANGED <<shader_map, jit_shader, code_ptr, crashed>>
           ELSE IF key \in DOMAIN shader_map
           THEN /\ jit_shader' = shader_map[key]
                /\ obs' = [Obs("Setup") EXCEPT
                              !.fresh = TRUE,
                              !.key = key,
                              !.keys = obs.keys \cup {key},
                              !.selected = obs.selected \cup
                                  {<<CurrentTriple, shader_map[key].ptr>>}]
                /\ UNCHANGED <<shader_map, code_ptr, crashed>>
           ELSE IF c.status # "ok"
           THEN /\ crashed' = TRUE
                /\ obs' = [Obs("Setup") EXCEPT
                              !.fresh = TRUE,
                              !.compiled = TRUE,
                              !.recompiled = key \in obs.ever,
                              !.key = key]
                /\ UNCHANGED <<shader_map, jit_shader, code_ptr>>
           ELSE /\ code_ptr + CompiledSize(c.code) <= CodeSpace
                /\ jit_shader' = shader
                /\ shader_map' = emplace(shader_map, key, shader)
                /\ code_ptr' = code_ptr + CompiledSize(c.code)
                /\ obs' = [Obs("Setup") EXCEPT
                              !.fresh = TRUE,
                              !.compiled = TRUE,
                              !.recompiled = key \in obs.ever,
                              !.key = key,
                              !.keys = obs.keys \cup {key},
                              !.ever = obs.ever \cup {key},
                              !.selected = obs.selected \cup
                                  {<<CurrentTriple, shader.ptr>>}]
                /\ UNCHANGED crashed
    /\ UNCHANGED <<g_shader_jit_enabled, program_code, swizzle_data,
                   main_offset, config, state, ret>>

\* void Shutdown()
Shutdown ==
    /\ ~crashed
    /\ shader_map' = clear(shader_map)
    /\ obs' = [Obs("Shutdown") EXCEPT !.keys = {}, !.selected = {}]
    /\ UNCHANGED <<g_shader_jit_enabled, program_code, swizzle_data,
                   main_offset, config, jit_shader, code_ptr, state, ret,
                   crashed>>

\* OutputVertex Run(UnitState& state, const InputVertex& input,
\*                  int num_attributes)
\* g, r13, r14: what the uninitialised record and the two host registers
\* hold when Run is entered
Run(input, num_attributes, g, r13, r14) ==
    /\ ~crashed
    /\ obs.runs < MaxRuns
    /\ LET jit == g_shader_jit_enabled
           loaded == SetupInputRegisters(state.registers, input_register_map,
                                         input, num_attributes, 0)
           m == RunShader(jit, jit_shader, program_code, swizzle_data,
                          main_offset, loaded, r13, r14, uniforms)
           \* for comparison: what the interpreter makes of the same call
           interp == IF jit
                     THEN RunInterpreter(program_code, swizzle_data,
                                         main_offset, loaded, uniforms)
                     ELSE m
           args == <<CurrentTriple, config, jit, jit_shader, input,
                     num_attributes, g, r13, r14>>
           o == [Obs("Run") EXCEPT !.input = input,
                                   !.num_attributes = num_attributes,
                                   !.jit = jit, !.g = g, !.r13 = r13,
                                   !.r14 = r14, !.runs = obs.runs + 1]
       IN  IF (jit /\ jit_shader = NullShader) \/ m.fault # ""
           THEN /\ crashed' = TRUE
                /\ obs' = o
                /\ UNCHANGED <<state, ret>>
           ELSE /\ state' = [registers |-> m.regs,
                             conditional_code |->
                                 IF jit THEN <<FALSE, FALSE>>
                                 ELSE <<m.COND0 = 1, m.COND1 = 1>>,
                             program_counter |-> main_offset]
                /\ ret' = OutputVertex(m.regs, vs_output_attributes, g)
                /\ obs' = [o EXCEPT
                     !.first = IF obs.first.set THEN obs.first
                               ELSE [set |-> TRUE, args |-> args,
                                     ret |-> OutputVertex(m.regs,
                                                 vs_output_attributes, g)],
                     !.trace = m.trace,
                     !.mapped = SetupOutputData(Uninitialised(g), m.regs,
                                                vs_output_attributes, 0),
                     !.interp_ok = (interp.fault = ""),
                     !.ret_interp = IF interp.fault = ""
                                    THEN OutputVertex(interp.regs,
                                             vs_output_attributes, g)
                                    ELSE Uninitialised(0)]
                /\ UNCHANGED crashed
    /\ UNCHANGED <<g_shader_jit_enabled, program_code, swizzle_data,
                   main_offset, config, shader_map, jit_shader, code_ptr>>

\* one vertex of a batch, with what the host left behind
RunVertex ==
    \E input \in InputVertices, r \in CallerRegisters :
        Run(input, 2, 0, r, r)

Next ==
    \/ \E t \in Uploads : LoadProgram(t)
    \/ \E b \in BOOLEAN : SetJitEnabled(b)
    \/ Setup
    \/ Shutdown
    \/ RunVertex

Spec == Init /\ [][Next]_vars

\* the cache alone: program changes, Setup and Shutdown with the JIT on
NextCache ==
    \/ \E t \in CacheUploads : LoadProgram(t)
    \/ Setup
    \/ Shutdown

InitCache == InitConfig(CacheUploads, {TRUE},
                        {CHOOSE u \in UniformChoices : TRUE},
                        {IdentityMap}, {PositionOnly})

SpecCache == InitCache /\ [][NextCache]_vars

\* the dispatcher under every order of calls: program changes, changes of
\* the JIT flag, Setup, Shutdown and Run of one vertex
InitDispatch == InitConfig(Uploads, BOOLEAN,
                           {CHOOSE u \in UniformChoices : TRUE},
                           {IdentityMap}, {PositionOnly})

NextDispatch ==
    \/ \E t \in Uploads : LoadProgram(t)
    \/ \E b \in BOOLEAN : SetJitEnabled(b)
    \/ Setup
    \/ Shutdown
    \/ Run(VertexA, 2, 0, 0, 0)

SpecDispatch == InitDispatch /\ [][NextDispatch]_vars

\* the dispatcher around one program: Setup, then Run per vertex
InitDraw == InitConfig(VertexUploads, BOOLEAN,
                       {CHOOSE u \in UniformChoices : TRUE},
                       AttributeMaps, OutputMaps)

RunDraw ==
    \E input \in InputVertices, n \in NumAttributes, g \in Garbage :
        Run(input, n, g, 0, 0)

NextDraw ==
    \/ Setup
    \/ RunDraw

SpecDraw == InitDraw /\ [][NextDraw]_vars

\* the two back-ends on every program: Setup, then Run per vertex
InitShader == InitConfig(ShaderUploads, BOOLEAN, UniformChoices,
                         {IdentityMap}, {PositionOnly})

RunShaderVertex ==
    \E input \in InputVertices, r13 \in CallerRegisters,
       r14 \in CallerRegisters :
        Run(input, 2, 0, r13, r14)

NextShader ==
    \/ Setup
    \/ RunShaderVertex

SpecShader == InitShader /\ [][NextShader]_vars

\* the two back-ends on the control-flow programs
InitFlow == InitConfig(FlowUploads, BOOLEAN, FlowUniforms,
                       {IdentityMap}, {PositionOnly})

SpecFlow == InitFlow /\ [][NextShader]_vars

-----------------------------------------------------------------------------
(* Properties *)

Max(S) == CHOOSE x \in S : \A y \in S : y <= x

\* the Run that obs describes returned
Returned == obs.call = "Run" /\ ~crashed

\* C1: whenever Run goes through the entrypoint compiled from the current
\* program, it returns, and returns the OutputVertex the interpreter
\* returns from the same unit state.
C1_JitMatchesInterpreter ==
    (obs.call = "Run" /\ obs.jit /\ jit_shader.from = CurrentTriple)
        => (~crashed /\ obs.interp_ok /\ ret = obs.ret_interp)

\* with R13 and R14 at zero on entry, the compiled code of the current program
\* and the interpreter return different records
C1_Diverges ==
    /\ Returned
    /\ obs.jit
    /\ jit_shader.from = CurrentTriple
    /\ obs.r13 = 0 /\ obs.r14 = 0
    /\ obs.interp_ok
    /\ ret # obs.ret_interp

\* C2: with the JIT enabled, a Setup compiles exactly when the key of the
\* current program code, swizzle table and entry offset has not been set up
\* since start-up or since the last Shutdown.
C2_CompilesExactlyOnMiss ==
    [][(obs'.call = "Setup" /\ g_shader_jit_enabled)
          => (obs'.compiled <=>
                CacheKey(program_code, swizzle_data, main_offset)
                    \notin obs.keys)]_vars

\* a Setup that compiled again a program compiled before the last Shutdown
C2_RecompiledAfterShutdown ==
    /\ obs.call = "Setup"
    /\ ~crashed
    /\ obs.compiled
    /\ obs.recompiled
    /\ jit_shader.from = CurrentTriple
    /\ jit_shader.ptr > 0

\* C3: of the Setups since the last Shutdown, two selected the same
\* entrypoint if and only if their (program code, swizzle table, entry offset)
\* triples were equal.
C3_SameEntrypointIffSameTriple ==
    \A a, b \in obs.selected : (a[2] = b[2]) <=> (a[1] = b[1])

\* a Setup selected an entrypoint that an earlier Setup had compiled from
\* another triple
C3_KeyCollision ==
    /\ obs.call = "Setup"
    /\ ~crashed
    /\ ~obs.compiled
    /\ jit_shader.from # CurrentTriple
    /\ \E a, b \in obs.selected : a[2] = b[2] /\ a[1] # b[1]

\* C4: after Shutdown the cache is empty and the code region's write cursor
\* is back at the start of the region.
C4_ShutdownReleasesCode ==
    obs.call = "Shutdown" => (shader_map = EmptyMap /\ code_ptr = 0)

\* the cache is empty after Shutdown and the compiled code still takes space
C4_CodeSpaceKept ==
    /\ obs.call = "Shutdown"
    /\ shader_map = EmptyMap
    /\ code_ptr > 0

\* what the OutputVertex of the Run that obs describes may depend on
RunArguments ==
    <<CurrentTriple, config, obs.jit, jit_shader, obs.input,
      obs.num_attributes, obs.g, obs.r13, obs.r14>>

\* C5: a Run called with the program, uniforms, register maps, input vertex
\* and attribute count of the first Run returns what the first Run returned,
\* whatever Runs happened in between.
C5_RunDependsOnlyOnItsInputs ==
    (Returned /\ obs.first.set /\ obs.first.args = RunArguments)
        => ret = obs.first.ret

\* a Run with the first Run's arguments returned another record
C5_EarlierVertexShows ==
    /\ Returned
    /\ obs.first.set
    /\ obs.first.args = RunArguments
    /\ ret # obs.first.ret

\* the attributes below n that the map sends to input register r
AttributesFor(r, n) ==
    {i \in 0..15 : i < n /\ input_register_map[i] = r}

\* C6: a Run with n attributes leaves in every input register the
\* highest-numbered attribute below n that is mapped to it, and leaves an
\* input register to which no attribute below n is mapped as it was.
C6_InputRegisterTable ==
    [][(obs'.call = "Run" /\ ~crashed')
          => \A r \in 0..15 :
                state'.registers[r] =
                    IF AttributesFor(r, obs'.num_attributes) = {}
                    THEN state.registers[r]
                    ELSE obs'.input[Max(AttributesFor(r, obs'.num_attributes))]
      ]_vars

\* two attributes mapped to register 0: the second one's value is there, and
\* register 1 has not been written
C6_AliasedAttributes ==
    /\ Returned
    /\ obs.num_attributes = 2
    /\ input_register_map = AliasMap
    /\ obs.input[0] # obs.input[1]
    /\ state.registers[0] = obs.input[1]
    /\ state.registers[1] = ZeroVec

\* no CMP has run before the k-th event of the trace
NoCmpBefore(trace, k) ==
    \A j \in 1..(k - 1) : ~(trace[j].ev = "op" /\ trace[j].op = "CMP")

\* C7: a conditional flow instruction that runs before any CMP of the same
\* Run sees both conditional codes at zero, in either back-end.
C7_CondCodesZeroAtStart ==
    Returned =>
        \A k \in 1..Len(obs.trace) :
            (/\ obs.trace[k].ev = "cond"
             /\ obs.trace[k].op \in {"IFC", "CALLC", "JMPC"}
             /\ NoCmpBefore(obs.trace, k))
                => (obs.trace[k].c0 = 0 /\ obs.trace[k].c1 = 0)

\* the compiled code tested a conditional code the caller had left set
C7_CallerValueTested ==
    /\ Returned
    /\ obs.jit
    /\ obs.r13 = 1
    /\ \E k \in 1..Len(obs.trace) :
          /\ obs.trace[k].ev = "cond"
          /\ obs.trace[k].op \in {"IFC", "CALLC", "JMPC"}
          /\ NoCmpBefore(obs.trace, k)
          /\ obs.trace[k].c0 = 1

\* the fields that a semantic other than INVALID of the first seven output
\* registers names
MappedFields ==
    {vs_output_attributes[i][c] : i \in 1..7, c \in 1..4} \ {INVALID}

\* C8: in the returned OutputVertex every one of the 24 fields that no
\* semantic other than INVALID names is zero.
C8_UnmappedFieldsZero ==
    Returned => \A k \in 0..23 : k \notin MappedFields => ret[k] = 0

\* a field that no semantic names holds what the record held before
C8_FieldLeftAsFound ==
    /\ Returned
    /\ obs.g # 0
    /\ \E k \in (0..23) \ MappedFields : ret[k] = obs.g

\* C9: every returned colour component is min(|v|, 1) of the value v the
\* remap left in its field (1 when v is not a number), and so lies in [0, 1].
C9_ColorSaturated ==
    Returned =>
        \A k \in 8..11 :
            /\ ret[k] = IF obs.mapped[k] = NaN THEN 1
                        ELSE Min(Abs(obs.mapped[k]), 1)
            /\ 0 <= ret[k]
            /\ ret[k] <= 1

\* a negative, a not-a-number and a large colour component, each saturated
C9_ColorOutOfRange ==
    /\ Returned
    /\ 8 \in MappedFields
    /\ obs.mapped[8] < 0
    /\ obs.mapped[10] = NaN
    /\ obs.mapped[11] > 1 /\ obs.mapped[11] # NaN
    /\ ret[8] = 1 /\ ret[10] = 1 /\ ret[11] = 1

\* the trace begins with count + 1 passes over the words first..last, the
\* loop counter at start + k * inc in pass k, and goes on with word last + 1
LoopTrace(trace, first, last, u) ==
    LET n == last - first + 1
        total == (u[1] + 1) * n
    IN  /\ Len(trace) > total
        /\ \A j \in 1..total :
              /\ trace[j].ev = "op"
              /\ trace[j].pc = first + ((j - 1) % n)
              /\ trace[j].lc = u[2] + ((j - 1) \div n) * u[3]
        /\ trace[total + 1].pc = last + 1

\* a program that begins with a LOOP over a straight-line body
\* [PC+1, dest_offset], dest_offset >= PC + shortest, is compiled by Setup,
\* and the compiled code runs the body count+1 times with the loop counter
\* at start + k*inc in pass k, and then goes on at dest_offset+1
LoopBehaviour(shortest) ==
    LET prog == ProgramCode(program_code)
        PC == main_offset
        instr == prog[PC + 1]
    IN  (/\ g_shader_jit_enabled
         /\ obs.call \in {"Setup", "Run"}
         /\ instr.op = "LOOP"
         /\ instr.dest_offset >= PC + shortest
         /\ \A w \in (PC + 1)..instr.dest_offset :
               prog[w + 1].op \in {"ADD", "MOV"})
            => /\ obs.call = "Setup" => ~crashed
               /\ Returned =>
                     LoopTrace(obs.trace, PC + 1, instr.dest_offset,
                               uniforms.i[instr.int_uniform_id])

\* C10: a LOOP at PC with any dest_offset >= PC+1, a one-instruction body
\* included, is compiled, runs its body [PC+1, dest_offset] count+1 times
\* with the loop counter at start + k*inc in pass k, and goes on at
\* dest_offset+1.
C10_LoopIterations == LoopBehaviour(1)

\* C10, for bodies of two instructions and more: dest_offset >= PC+2.
C10_LongerLoops == LoopBehaviour(2)

\* a loop over two instructions has run count+1 = MaxCount+1 times
C10_LoopRan ==
    /\ Returned
    /\ obs.jit
    /\ program_code = 2
    /\ uniforms.i[0][1] = MaxCount
    /\ Len(obs.trace) = 2 * (MaxCount + 1) + 1

\* Setup stopped on a loop whose body is the one word after the LOOP
C10_OneInstructionLoop ==
    /\ obs.call = "Setup"
    /\ crashed
    /\ ProgramCode(program_code)[main_offset + 1].op = "LOOP"
    /\ ProgramCode(program_code)[main_offset + 1].dest_offset = main_offset + 1

-----------------------------------------------------------------------------
(* Single emitted sequences.  The dispatcher's variables stay as they are   *)
(* after construction; obs holds the instruction word, the host registers  *)
(* the sequence starts from and what it leaves.                            *)

InitBench(unif) ==
    /\ g_shader_jit_enabled = TRUE
    /\ program_code = 1 /\ swizzle_data = 11 /\ main_offset = 0
    /\ uniforms = unif
    /\ input_register_map = IdentityMap
    /\ vs_output_attributes = PositionOnly
    /\ shader_map = EmptyMap
    /\ jit_shader = NullShader
    /\ code_ptr = 0
    /\ state = [registers |-> ZeroRegisters,
                conditional_code |-> <<FALSE, FALSE>>,
                program_counter |-> 0]
    /\ ret = Uninitialised(0)
    /\ crashed = FALSE

BenchUnchanged ==
    UNCHANGED <<g_shader_jit_enabled, program_code, swizzle_data, main_offset,
                config, shader_map, jit_shader, code_ptr, state, ret, crashed>>

\* the condition sequence of one flow-control word on condition codes 0 / 1
InitCondition ==
    /\ InitBench(CHOOSE u \in FlowUniforms : u.b[0])
    /\ \E cop \in {"Or", "And", "JustX", "JustY"}, rx \in {0, 1}, ry \in {0, 1},
          c0 \in {0, 1}, c1 \in {0, 1} :
          obs = [call |-> "Init",
                 instr |-> FlowC("IFC", 2, 0, cop, rx, ry),
                 m |-> Prologue(ZeroRegisters, c0, c1),
                 v |-> 0]

EvaluateCondition ==
    /\ obs.call = "Init"
    /\ obs' = [obs EXCEPT !.call = "Compile_EvaluateCondition",
                          !.v = Compile_EvaluateCondition(obs.instr, obs.m)]
    /\ BenchUnchanged

SpecCondition == InitCondition /\ [][EvaluateCondition]_vars

\* the operand load of source 1, 2 or 3 of a word: v0 under a descriptor
\* that holds the selector and negate flag drawn for that source and other
\* values for the other two sources
InitSwizzle ==
    /\ InitBench(CHOOSE u \in FlowUniforms : u.b[0])
    /\ \E sel \in 0..255, negate \in BOOLEAN,
          w \in { <<"ADD", 1>>, <<"ADD", 2>>, <<"MAD", 1>>, <<"MAD", 2>>,
                  <<"MAD", 3>> },
          a \in { Vec(1, 2, 3, 4), Vec(NaN, 0, 0 - 3, Half(1)) } :
          obs = [call |-> "Init",
                 instr |-> Arith(w[1], O(0), V(0), V(0), 0),
                 src_num |-> w[2],
                 swz |-> << SwizzlePattern(
                               NO_DEST_REG_MASK,
                               IF w[2] = 1 THEN sel ELSE (sel + 1) % 256,
                               IF w[2] = 2 THEN sel ELSE (sel + 1) % 256,
                               IF w[2] = 3 THEN sel ELSE (sel + 1) % 256,
                               IF w[2] = 1 THEN negate ELSE ~negate,
                               IF w[2] = 2 THEN negate ELSE ~negate,
                               IF w[2] = 3 THEN negate ELSE ~negate) >>,
                 m |-> [Prologue(ZeroRegisters, 0, 0) EXCEPT
                          !.regs[InputOffset(V(0))] = a],
                 r |-> ZeroVec]

\* the sequence Compile_SwizzleSrc emits for the source, run
LoadOperand ==
    /\ obs.call = "Init"
    /\ obs' = [obs EXCEPT
                 !.call = "Compile_SwizzleSrc",
                 !.r = Compile_SwizzleSrc(
                           obs.instr, obs.src_num, V(0), obs.m,
                           [swz |-> obs.swz, uniforms |-> uniforms,
                            outside |-> [mapped |-> FALSE, v |-> ZeroVec],
                            rc |-> "nearest", sse4_1 |-> TRUE])]
    /\ BenchUnchanged

SpecSwizzle == InitSwizzle /\ [][LoadOperand]_vars

\* register contents for comparisons: smaller, larger, equal, NaN
Operands ==
    { Vec(1, 2, 3, 4), Vec(2, 1, 3, 4), Vec(NaN, 1, 3, 4), Vec(1, NaN, 3, 4) }

\* single instructions with their operand descriptor, the host registers
\* they run on and what lies in memory around the register arrays
InstrCases ==
    LET \* a descriptor that exchanges x and y of the first two sources and
        \* negates the second
        Swapped == SwizzlePattern(NO_DEST_REG_MASK, 75, 75,
                                  NO_SRC_REG_SWIZZLE, FALSE, TRUE, FALSE)
        Unmapped == [mapped |-> FALSE, v |-> ZeroVec]
        \* the host registers with v0 and v1 holding a and b
        Loaded(a, b) ==
            Prologue([ZeroRegisters EXCEPT ![V(0)] = a, ![V(1)] = b], 0, 0)
        CompareOps == {"EQ", "NEQ", "LT", "LE", "GT", "GE"}
        \* CMP v0, v1 with every pair of comparison operators
        CompareCases ==
            { [instr |-> Cmp(V(0), V(1), cx, cy, 0), swz |-> << p >>,
               m |-> Loaded(a, b), outside |-> Unmapped,
               rc |-> "nearest", sse4_1 |-> TRUE] :
                cx \in CompareOps, cy \in CompareOps,
                p \in {IdentityPattern, Swapped},
                a \in Operands, b \in Operands }
        \* every register holds its own slot number, v5 holds 100
        Numbered == [s \in 0..47 |-> Splat(IF s = 5 THEN 100 ELSE s)]
        \* the address registers as MOVA (of 1, -1, 96 or a NaN) and LOOP
        \* may have left them
        Addressed(a) ==
            [Prologue(Numbered, 0, 0) EXCEPT
               !.ADDROFFS_REG_0 = a[1], !.ADDROFFS_REG_1 = a[2],
               !.LOOPCOUNT_REG = a[3]]
        Indexed(o, s1, s2, k) ==
            [Arith(o, O(0), s1, s2, 0) EXCEPT !.address_register_index = k]
        \* MOV and ADD with an indexed first source, SLTI with an indexed
        \* second source
        IndexedCases ==
            { [instr |-> w, swz |-> << IdentityPattern >>,
               m |-> Addressed(a), outside |-> out,
               rc |-> "nearest", sse4_1 |-> TRUE] :
                w \in { Indexed(o, s1, V(1), k) :
                          o \in {"MOV", "ADD"},
                          s1 \in {V(15), R(2), C(0), C(95)}, k \in 0..3 }
                      \cup { Indexed("SLTI", V(5), C(0), k) : k \in 0..3 },
                a \in { <<1, 0 - 1, 16>>, <<0 - 1, 1, 1>>,
                        <<0 - 2147483647 - 1, 96, 0>> },
                out \in { Unmapped, [mapped |-> TRUE, v |-> Splat(0 - 7)] } }
        \* MOVA v0 with x and y, x alone, y alone and neither enabled, on
        \* whole values, NaN, 1.5, -1.5 and 2.5, with MXCSR rounding to
        \* nearest or toward zero; the address registers hold 7 and 9 and
        \* the loop counter 32 before
        MovaCases ==
            { [instr |-> Arith("MOVA", 0, V(0), 0, 0),
               swz |-> << [IdentityPattern EXCEPT !.dest_mask = dm] >>,
               m |-> [Loaded(a, a) EXCEPT !.ADDROFFS_REG_0 = 7,
                                          !.ADDROFFS_REG_1 = 9,
                                          !.LOOPCOUNT_REG = 32],
               outside |-> Unmapped, rc |-> rc, sse4_1 |-> TRUE] :
                dm \in {15, 8, 4, 3},
                a \in Operands \cup { Vec(Half(1), Half(0 - 2), 3, 4),
                                      Vec(Half(2), Half(1), 0 - 3, 4) },
                rc \in {"nearest", "zero"} }
        \* descriptors with a partial destination mask: x and y enabled,
        \* the first source as yxzw and negated; x and w enabled, the first
        \* source as xxxx
        Masked == SwizzlePattern(12, 75, NO_SRC_REG_SWIZZLE,
                                 NO_SRC_REG_SWIZZLE, TRUE, FALSE, FALSE)
        Broadcast == SwizzlePattern(9, 0, NO_SRC_REG_SWIZZLE,
                                    NO_SRC_REG_SWIZZLE, FALSE, FALSE, FALSE)
        \* SLT, SLTI, RCP and RSQ on v0 and v1
        LaneCases ==
            { [instr |-> Arith(o, O(0), V(0), V(1), 0), swz |-> << p >>,
               m |-> Loaded(a, b), outside |-> Unmapped,
               rc |-> "nearest", sse4_1 |-> TRUE] :
                o \in {"SLT", "SLTI", "RCP", "RSQ"},
                p \in {IdentityPattern, Swapped, Masked, Broadcast},
                a \in Operands \cup {Splat(1)}, b \in {Vec(2, 1, 3, 4)} }
        \* ADD o0, v0, v1 and MOV o0, v0 under each of the 16 write-masks,
        \* on a host with and without SSE4.1; o0 holds (11, 12, 13, 14)
        CommitCases ==
            { [instr |-> Arith(o, O(0), V(0), V(1), 0),
               swz |-> << [IdentityPattern EXCEPT !.dest_mask = dm] >>,
               m |-> [Loaded(a, Vec(20, 30, 40, 50)) EXCEPT
                        !.regs[OutputOffset(O(0))] = Vec(11, 12, 13, 14)],
               outside |-> Unmapped, rc |-> "nearest", sse4_1 |-> h] :
                o \in {"ADD", "MOV"}, dm \in 0..15,
                a \in {Vec(1, 2, 3, 4), Vec(NaN, 1, 3, 4)}, h \in BOOLEAN }
    IN  CompareCases \cup IndexedCases \cup MovaCases \cup LaneCases
            \cup CommitCases

\* one instruction word, its operand descriptor and the host registers;
\* every float uniform holds 100 plus its own index
InitInstr ==
    /\ InitBench([b |-> [k \in 0..15 |-> k = 0],
                  i |-> [k \in 0..3 |-> <<MaxCount, 1, 2, 0>>],
                  f |-> [k \in 0..95 |-> Splat(100 + k)]])
    /\ \E t \in InstrCases :
          obs = [call |-> "Init", instr |-> t.instr, swz |-> t.swz,
                 m |-> t.m, outside |-> t.outside, rc |-> t.rc,
                 sse4_1 |-> t.sse4_1,
                 r |-> t.m]

\* the sequence emitted for the word, run on the host registers; for an
\* opcode whose instr_table entry is null nothing is emitted
Execute ==
    /\ obs.call = "Init"
    /\ obs' = [obs EXCEPT
                 !.call = "Execute",
                 !.r = IF instr_table(obs.instr.op) = "nullptr" THEN obs.m
                       ELSE ExecOp(obs.instr, 0, obs.m,
                                   [swz |-> obs.swz, uniforms |-> uniforms,
                                    outside |-> obs.outside,
                                    rc |-> obs.rc,
                                    sse4_1 |-> obs.sse4_1])]
    /\ BenchUnchanged

SpecInstr == InitInstr /\ [][Execute]_vars

\* programs around control-flow words: one IF, JMP or LOOP at every address
\* 0..2 with every destination; two LOOPs, the second inside or after the
\* first; a LOOP inside an IF range, inside a JMP block and behind a CALL,
\* all inside a LOOP body; CALLs into every range; control-flow words
\* behind the END of the main routine and before the entry
CompileCases ==
    LET Mov == Arith("MOV", O(0), V(0), 0, 0)
        word(op, d) == IF op \in {"IFC", "JMPC"}
                       THEN FlowC(op, d, 1, "Or", 1, 1)
                       ELSE FlowU(op, d, 1, 0)
        \* MOVs, END in the last word, and the given words at their addresses
        Around(ws) ==
            [k \in 1..ProgSize |->
                IF k - 1 \in DOMAIN ws THEN ws[k - 1]
                ELSE IF k = ProgSize THEN End ELSE Mov]
        One == { [prog |-> Around([a \in {pc} |-> word(op, d)]), main |-> 0] :
                   op \in {"IFU", "IFC", "JMPU", "JMPC", "LOOP"},
                   pc \in 0..2, d \in 0..(ProgSize - 1) }
        Two == { [prog |-> Around([a \in {0, pc2} |->
                                     IF a = 0 THEN word("LOOP", d1)
                                     ELSE word("LOOP", ProgSize - 1)]),
                  main |-> 0] : d1 \in 2..3, pc2 \in 1..3 }
        Inside == { [prog |-> Around([a \in 0..2 |->
                                        CASE a = 0 -> word("LOOP", 4)
                                          [] a = 1 -> word(op, 3)
                                          [] a = 2 -> word("LOOP", 5)]),
                     main |-> 0] : op \in {"IFU", "JMPU"} }
        Called == { [prog |-> Around([a \in {0, 2, 3} |->
                                        CASE a = 0 -> word("LOOP", 2)
                                          [] a = 2 -> word("LOOP", 4)
                                          [] a = 3 -> FlowU("CALL", 0, 1, 0)]),
                     main |-> 2] }
        \* a CALL, CALLC or CALLU at address 0..2 to every range of one or
        \* two words, and a CALL whose range holds a CALL back to it
        Calls == { [prog |-> Around([a \in {pc} |->
                                       IF op = "CALLC"
                                       THEN FlowC(op, d, n, "Or", 1, 1)
                                       ELSE FlowU(op, d, n, 0)]),
                    main |-> 0] :
                     op \in {"CALL", "CALLC", "CALLU"}, pc \in 0..2,
                     d \in 0..4, n \in 1..2 }
        Mutual == { [prog |-> Around([a \in {0, 2} |->
                                        IF a = 0 THEN FlowU("CALL", 1, 2, 0)
                                        ELSE FlowU("CALL", 0, 1, 0)]),
                     main |-> 0] }
        \* END at address 1, and behind it an IF, JMP or LOOP with every
        \* destination, or a LOOP inside a LOOP
        Dead == { [prog |-> Around([a \in {1, 3} |->
                                      IF a = 1 THEN End ELSE word(op, d)]),
                   main |-> 0] :
                    op \in {"IFU", "JMPU", "LOOP"}, d \in 0..(ProgSize - 1) }
                \cup { [prog |-> Around([a \in 1..3 |->
                                           CASE a = 1 -> End
                                             [] a = 2 -> word("LOOP", 4)
                                             [] a = 3 -> word("LOOP", 4)]),
                         main |-> 0] }
        \* the entry at address 2, behind a JMP or LOOP to itself
        Before == { [prog |-> Around([a \in {0} |-> word(op, 0)]),
                     main |-> 2] : op \in {"JMPU", "LOOP"} }
    IN  One \cup Two \cup Inside \cup Called \cup Calls \cup Mutual
            \cup Dead \cup Before

InitCompile ==
    /\ InitBench(CHOOSE u \in FlowUniforms : u.b[0])
    /\ \E t \in CompileCases :
          obs = [call |-> "Init", prog |-> t.prog, main |-> t.main,
                 c |-> [offset |-> t.main, looping |-> FALSE, code |-> <<>>,
                        status |-> "ok", active |-> {}]]

\* JitCompiler::Compile on the program
CompileProgram ==
    /\ obs.call = "Init"
    /\ obs' = [obs EXCEPT !.call = "Compile",
                          !.c = Compile(obs.prog, obs.main)]
    /\ BenchUnchanged

SpecCompile == InitCompile /\ [][CompileProgram]_vars

-----------------------------------------------------------------------------
(* Control flow in compiled code *)

\* the instruction word a trace event belongs to
Word(e) == ProgramCode(program_code)[e.pc + 1]

\* a run of the compiled code that returned
JitReturned == Returned /\ obs.jit

\* positions in the trace where a conditional jump evaluated its condition
JumpEvents ==
    { k \in 1..Len(obs.trace) :
        obs.trace[k].ev = "cond" /\ obs.trace[k].op \in {"JMPC", "JMPU"} }

\* C11: in compiled code a JMPC / JMPU whose condition is true continues
\* with the instruction at dest_offset, and one whose condition is false
\* continues with the instruction after the jump
C11_JumpLandsAtDest ==
    JitReturned =>
        \A k \in JumpEvents :
            /\ k < Len(obs.trace)
            /\ obs.trace[k + 1].pc =
                   IF obs.trace[k].v # 0
                   THEN Word(obs.trace[k]).dest_offset
                   ELSE obs.trace[k].pc + 1

\* a taken jump after which the next instruction executed is the one after
\* dest_offset
C11_JumpSkipsDest ==
    /\ JitReturned
    /\ \E k \in JumpEvents :
          /\ obs.trace[k].v # 0
          /\ k < Len(obs.trace)
          /\ obs.trace[k + 1].pc = Word(obs.trace[k]).dest_offset + 1

OpWords == {"ADD", "MOV", "CMP"}

\* The trace read against the control flow the instruction set prescribes:
\* Walk(i, pc, end) follows the words [pc, end) from the i-th event on, taking
\* at each conditional the side its recorded value selects, and returns the
\* index of the first event it has not consumed.
\*   IF:    [pc + 1, dest) when true, [dest, dest + n) when false, then
\*          dest + n
\*   CALL:  [dest, dest + n), then pc + 1; CALLC / CALLU only when true
\*   END:   stops the program
RECURSIVE Walk(_, _, _)
Walk(i, pc, end) ==
    IF pc >= end \/ pc >= ProgSize
    THEN [i |-> i, halted |-> FALSE, ok |-> pc >= end]
    ELSE
    LET w == ProgramCode(program_code)[pc + 1]
        d == w.dest_offset
        n == w.num_instructions
        here(kind) == /\ i <= Len(obs.trace)
                      /\ obs.trace[i].ev = kind
                      /\ obs.trace[i].pc = pc
        bad == [i |-> i, halted |-> FALSE, ok |-> FALSE]
        then(r, next) == IF r.ok /\ ~r.halted THEN Walk(r.i, next, end) ELSE r
    IN  CASE w.op = "END" -> [i |-> i, halted |-> TRUE, ok |-> TRUE]
          [] w.op \in OpWords ->
                IF here("op") THEN Walk(i + 1, pc + 1, end) ELSE bad
          [] w.op \in {"IFC", "IFU"} ->
                IF ~here("cond") THEN bad
                ELSE then(IF obs.trace[i].v # 0 THEN Walk(i + 1, pc + 1, d)
                          ELSE Walk(i + 1, d, d + n),
                          d + n)
          [] w.op = "CALL" -> then(Walk(i, d, d + n), pc + 1)
          [] w.op \in {"CALLC", "CALLU"} ->
                IF ~here("cond") THEN bad
                ELSE IF obs.trace[i].v # 0
                THEN then(Walk(i + 1, d, d + n), pc + 1)
                ELSE Walk(i + 1, pc + 1, end)
          [] w.op = "NOP" -> Walk(i, pc + 1, end)
          [] OTHER -> bad

\* the whole trace is the prescribed path from main_offset to END
TraceFollowsProgram ==
    LET r == Walk(1, main_offset, ProgSize)
    IN  r.ok /\ r.halted /\ r.i = Len(obs.trace) + 1

\* the addresses of the words of the current program with one of the opcodes
WordsWith(ops) ==
    { pc \in 0..(ProgSize - 1) : ProgramCode(program_code)[pc + 1].op \in ops }

\* the compile offset Compile_IF leaves behind for the IF at pc
OffsetAfterIf(pc) ==
    Compile_IF(ProgramCode(program_code), ProgramCode(program_code)[pc + 1],
               [offset |-> pc + 1, looping |-> FALSE, code |-> <<>>,
                status |-> "ok", active |-> {}]).offset

\* C12: for an accepted IFC / IFU exactly one of the two ranges runs,
\* [PC + 1, dest) when the condition is true and [dest, dest + n) when it is
\* false, execution goes on at dest + n, and compiling the IF, nested IF and
\* CALL included, leaves the compile offset at dest + n
C12_IfRanges ==
    (JitReturned /\ WordsWith({"IFC", "IFU"}) # {}) =>
        /\ TraceFollowsProgram
        /\ \A pc \in WordsWith({"IFC", "IFU"}) :
              LET w == ProgramCode(program_code)[pc + 1]
              IN  OffsetAfterIf(pc) = w.dest_offset + w.num_instructions

\* an IF with a nested IF in its true range ran with the outer condition
\* true and the inner one false
C12_NestedIfRan ==
    /\ JitReturned
    /\ Len(obs.trace) = 3
    /\ obs.trace[1].op = "IFU" /\ obs.trace[1].v # 0
    /\ obs.trace[2].op = "IFU" /\ obs.trace[2].v = 0
    /\ obs.trace[3].pc = Word(obs.trace[2]).dest_offset

\* the condition-code expression of a flow-control word, on cc = (c0, c1)
ConditionHolds(w, c0, c1) ==
    CASE w.cond_op = "Or" -> c0 = w.refx \/ c1 = w.refy
      [] w.cond_op = "And" -> c0 = w.refx /\ c1 = w.refy
      [] w.cond_op = "JustX" -> c0 = w.refx
      [] w.cond_op = "JustY" -> c1 = w.refy

\* positions in the trace where a conditional call evaluated its condition
CallEvents(op) ==
    { k \in 1..Len(obs.trace) :
        obs.trace[k].ev = "cond" /\ obs.trace[k].op = op }

\* C13: CALL runs [dest, dest + n) and resumes at PC + 1; CALLC runs the
\* range iff its condition-code expression is true, CALLU iff the selected
\* boolean uniform is true, and otherwise execution goes to PC + 1; after
\* CMP LT, EQ a CALLC And 1, 1 calls iff s1.x < s2.x and s1.y = s2.y
C13_Calls ==
    (JitReturned /\ WordsWith({"CALL", "CALLC", "CALLU"}) # {}) =>
        /\ TraceFollowsProgram
        /\ \A k \in CallEvents("CALLC") :
              LET e == obs.trace[k]
                  w == Word(e)
                  p == Word(obs.trace[k - 1])
              IN  /\ (e.v # 0) <=> ConditionHolds(w, e.c0, e.c1)
                  /\ ( /\ k > 1 /\ obs.trace[k - 1].op = "CMP"
                       /\ p.compare_x = "LT" /\ p.compare_y = "EQ"
                       /\ w.cond_op = "And" /\ w.refx = 1 /\ w.refy = 1 )
                     => ( (e.v # 0) <=>
                            /\ obs.input[p.src1][1] < obs.input[p.src2][1]
                            /\ obs.input[p.src1][2] = obs.input[p.src2][2] )
        /\ \A k \in CallEvents("CALLU") :
              (obs.trace[k].v # 0) <=>
                  uniforms.b[Word(obs.trace[k]).bool_uniform_id]

\* a CALLC after CMP LT, EQ made its call and the caller resumed after it
C13_CallcCalled ==
    /\ JitReturned
    /\ Len(obs.trace) = 4
    /\ obs.trace[1].op = "CMP"
    /\ obs.trace[2].op = "CALLC" /\ obs.trace[2].v # 0
    /\ obs.trace[3].pc = Word(obs.trace[2]).dest_offset
    /\ obs.trace[4].pc = obs.trace[2].pc + 1

\* C14: for every operator, every refx, refy and every cc.x, cc.y in {0, 1}
\* the value of the emitted condition sequence is zero iff the condition
\* (JustX: cc.x = refx, JustY: cc.y = refy, And: both, Or: at least one) is
\* false
C14_ConditionValue ==
    obs.call = "Compile_EvaluateCondition" =>
        ( (obs.v = 0) <=>
              ~ConditionHolds(obs.instr, obs.m.COND0, obs.m.COND1) )

\* an And whose first half holds and whose second does not evaluated to zero
C14_AndHalfTrue ==
    /\ obs.call = "Compile_EvaluateCondition"
    /\ obs.instr.cond_op = "And"
    /\ obs.m.COND0 = obs.instr.refx
    /\ obs.m.COND1 # obs.instr.refy
    /\ obs.v = 0

\* addresses of the words of the compiled program with one of the opcodes
Compiled(ops) ==
    { pc \in 0..(ProgSize - 1) : obs.prog[pc + 1].op \in ops }

\* the words the range of the CALL, CALLC or CALLU at pc covers
CallRange(pc) ==
    LET w == obs.prog[pc + 1]
    IN  w.dest_offset..(w.dest_offset + w.num_instructions - 1)

\* the compiler looks at the word at pc: it lies at or after main_offset
\* or in the range of a CALL that does
Visited(pc) ==
    \/ pc >= obs.main
    \/ \E q \in Compiled({"CALL", "CALLC", "CALLU"}) :
          q >= obs.main /\ pc \in CallRange(q)

\* the compilation returned, and the compiler looked at every control-flow
\* word of the program
WholeProgram ==
    /\ obs.call = "Compile"
    /\ obs.c.status # "unbounded recursion"
    /\ \A pc \in Compiled({"IFU", "IFC", "JMPU", "JMPC", "LOOP"}) :
          Visited(pc)

\* a control-flow word whose destination is not beyond its own address
BackwardsTransfer ==
    \E pc \in Compiled({"IFU", "IFC", "JMPU", "JMPC", "LOOP"}) :
        obs.prog[pc + 1].dest_offset <= pc

\* a LOOP inside the body of another LOOP: directly or inside an IF / JMP
\* block there, or in the range of a CALL there
NestedLoop ==
    \E pc1 \in Compiled({"LOOP"}) :
        LET body == (pc1 + 1)..(obs.prog[pc1 + 1].dest_offset)
        IN  \/ Compiled({"LOOP"}) \cap body # {}
            \/ \E pc \in Compiled({"CALL"}) \cap body :
                  LET w == obs.prog[pc + 1]
                  IN  Compiled({"LOOP"}) \cap
                        (w.dest_offset..(w.dest_offset + w.num_instructions - 1))
                      # {}

\* C16: compilation fails with an assertion exactly for unsupported control
\* flow: an IF, JMP or LOOP at PC iff dest_offset <= PC, a LOOP also iff it
\* is compiled inside another LOOP's body; every forward transfer, with
\* dest_offset = PC + 1 too, and a LOOP after a completed LOOP compile
C16_RejectsExactlyUnsupported ==
    WholeProgram =>
        ( (obs.c.status # "ok") <=> (BackwardsTransfer \/ NestedLoop) )

\* a program whose only transfer goes to the next word was rejected
C16_NextWordRejected ==
    /\ obs.call = "Compile"
    /\ obs.c.status # "ok"
    /\ ~BackwardsTransfer /\ ~NestedLoop
    /\ \E pc \in Compiled({"IFU", "IFC", "JMPU", "JMPC", "LOOP"}) :
          obs.prog[pc + 1].dest_offset = pc + 1

\* what the compiler rejects: destinations up to PC + 1, and nested LOOPs
C16_RejectsUpToNextWord ==
    WholeProgram =>
        ( (obs.c.status # "ok") <=>
            \/ NestedLoop
            \/ \E pc \in Compiled({"IFU", "IFC", "JMPU", "JMPC", "LOOP"}) :
                  obs.prog[pc + 1].dest_offset <= pc + 1 )

-----------------------------------------------------------------------------
(* Single instructions in compiled code *)

Executed(op) == obs.call = "Execute" /\ obs.instr.op = op

\* a source operand as the instruction set defines it: component c of the
\* register selected by the c-th two-bit field of the selector, most
\* significant first, then the negation
Swizzled(v, sel, negate) ==
    LET new == [c \in 1..4 |-> v[1 + ((sel \div (4 ^ (4 - c))) % 4)]]
    IN  IF negate THEN [c \in 1..4 |-> FNeg(new[c])] ELSE new

\* the register bank a source register number names: the array, its first
\* slot and its size
BankOf(src_reg) ==
    CASE src_reg >= 32 -> [array |-> uniforms.f, first |-> 0, size |-> 96,
                           index |-> src_reg - 32]
      [] src_reg >= 16 -> [array |-> obs.m.regs, first |-> 16, size |-> 16,
                           index |-> src_reg - 16]
      [] OTHER -> [array |-> obs.m.regs, first |-> 0, size |-> 16,
                   index |-> src_reg]

\* the offset address register k holds: the integers set by MOVA, or the
\* loop counter
AddressOffset(k) ==
    CASE k = 0 -> 0
      [] k = 1 -> obs.m.ADDROFFS_REG_0
      [] k = 2 -> obs.m.ADDROFFS_REG_1
      [] k = 3 -> obs.m.LOOPCOUNT_REG

\* the register at the encoded index plus an offset, modulo the bank size
RegisterAt(src_reg, offset) ==
    LET b == BankOf(src_reg)
    IN  b.array[b.first + ((b.index + offset) % b.size)]

\* the two source operands of the instruction, each with its own selector
\* and negate flag
Source1 == Swizzled(RegisterAt(obs.instr.src1, 0), obs.swz[1].sel1,
                    obs.swz[1].negate_src1)

Source2 == Swizzled(RegisterAt(obs.instr.src2, 0), obs.swz[1].sel2,
                    obs.swz[1].negate_src2)

\* a comparison of two floats: false on a NaN, except for "not equal"
FloatCompare(op, a, b) ==
    LET ordered == a # NaN /\ b # NaN
    IN  CASE op = "EQ" -> ordered /\ a = b
          [] op = "NEQ" -> ~ordered \/ a # b
          [] op = "LT" -> ordered /\ a < b
          [] op = "LE" -> ordered /\ a <= b
          [] op = "GT" -> ordered /\ a > b
          [] op = "GE" -> ordered /\ a >= b

\* C15: after a compiled CMP, for every pair of comparison operators, equal
\* or not, cc.x and cc.y are each 0 or 1 with cc.x = (s1.x op_x s2.x) and
\* cc.y = (s1.y op_y s2.y) on the swizzled sources, and no register of the
\* register file is written
C15_CompareResult ==
    Executed("CMP") =>
        /\ obs.r.fault = ""
        /\ obs.r.COND0 =
              (IF FloatCompare(obs.instr.compare_x, Source1[1], Source2[1])
               THEN 1 ELSE 0)
        /\ obs.r.COND1 =
              (IF FloatCompare(obs.instr.compare_y, Source1[2], Source2[2])
               THEN 1 ELSE 0)
        /\ obs.r.regs = obs.m.regs

\* a GT against a NaN that set its condition code
C15_GreaterThanNaN ==
    /\ Executed("CMP")
    /\ obs.instr.compare_x = "GT"
    /\ (Source1[1] = NaN \/ Source2[1] = NaN)
    /\ obs.r.COND0 = 1

\* the claim holds when neither compared component is a NaN, and for EQ,
\* NEQ, LT and LE also on NaNs
C15_OrderedCompare ==
    Executed("CMP") =>
        /\ obs.r.fault = ""
        /\ obs.r.regs = obs.m.regs
        /\ ( (Source1[1] # NaN /\ Source2[1] # NaN)
               \/ obs.instr.compare_x \notin {"GT", "GE"} )
             => obs.r.COND0 =
                  (IF FloatCompare(obs.instr.compare_x, Source1[1], Source2[1])
                   THEN 1 ELSE 0)
        /\ ( (Source1[2] # NaN /\ Source2[2] # NaN)
               \/ obs.instr.compare_y \notin {"GT", "GE"} )
             => obs.r.COND1 =
                  (IF FloatCompare(obs.instr.compare_y, Source1[2], Source2[2])
                   THEN 1 ELSE 0)

\* an executed MOV or ADD whose first source is indexed
IndexedLoad ==
    /\ obs.call = "Execute"
    /\ obs.instr.op \in {"MOV", "ADD"}
    /\ obs.instr.address_register_index # 0

\* what MOV or ADD writes when its first source is the vector s1
Written(s1) ==
    IF obs.instr.op = "MOV" THEN s1
    ELSE [c \in 1..4 |-> FAdd(s1[c], RegisterAt(obs.instr.src2, 0)[c])]

\* C17: no source load reads outside the register bank it addresses: for
\* every value of the address offsets and the loop counter, negative and
\* large ones too, the effective index is brought into range modulo the
\* bank size before the load
C17_LoadsStayInBank ==
    IndexedLoad =>
        /\ obs.r.fault = ""
        /\ obs.r.regs[OutputOffset(obs.instr.dest)] =
              Written(RegisterAt(obs.instr.src1,
                                 AddressOffset(obs.instr.address_register_index)))

\* a load whose index plus offset lies outside the bank read what lies
\* outside the array, or ended the run on unmapped memory
C17_ReadOutsideBank ==
    /\ IndexedLoad
    /\ obs.instr.op = "MOV"
    /\ obs.instr.address_register_index \in {1, 2}
    /\ LET b == BankOf(obs.instr.src1)
           at == b.index + AddressOffset(obs.instr.address_register_index)
       IN  /\ at \notin 0..(b.size - 1)
           /\ \/ obs.r.fault = "load from unmapped memory"
              \/ /\ obs.outside.mapped
                 /\ obs.r.regs[OutputOffset(obs.instr.dest)] = obs.outside.v

\* the encoded index plus the offset is a register of the bank
InBank(src_reg, offset) ==
    LET b == BankOf(src_reg)
    IN  b.index + offset \in 0..(b.size - 1)

\* the loads of an executed MOV, ADD or SLTI are as C18 has them: the
\* offsettable source (the first; the second for SLTI) from the encoded
\* index plus the offset of the address register, the other from its
\* encoded index
LoadsAsIndexed ==
    LET k == obs.instr.address_register_index
        dest == obs.r.regs[OutputOffset(obs.instr.dest)]
    IN  /\ obs.r.fault = ""
        /\ obs.instr.op \in {"MOV", "ADD"} =>
              dest = Written(RegisterAt(obs.instr.src1, AddressOffset(k)))
        /\ obs.instr.op = "SLTI" =>
              dest[1] =
                (IF RegisterAt(obs.instr.src1, 0)[1]
                      < RegisterAt(obs.instr.src2, AddressOffset(k))[1]
                 THEN 1 ELSE 0)

\* C18: with address register index k in 1..3 the compiled load of the
\* offsettable source (src1, or src2 for SrcInversed opcodes) reads the
\* register at the encoded index plus offset_k, offset_1 and offset_2 being
\* the integers set by MOVA and offset_3 the loop counter; every other
\* source, and every source when k = 0, is loaded from its encoded index
C18_IndexedSource ==
    ( /\ obs.call = "Execute"
      /\ obs.instr.op \in {"MOV", "ADD", "SLTI"}
      /\ InBank(IF obs.instr.op = "SLTI" THEN obs.instr.src2
                ELSE obs.instr.src1,
                AddressOffset(obs.instr.address_register_index)) )
    => LoadsAsIndexed

\* with the loop counter at 16, MOV o0, c0[aL] read c1 and not c16
C18_LoopCounterAsBytes ==
    /\ obs.call = "Execute"
    /\ obs.instr.op = "MOV" /\ obs.instr.src1 = C(0)
    /\ obs.instr.address_register_index = 3
    /\ obs.m.LOOPCOUNT_REG = 16
    /\ obs.r.fault = ""
    /\ obs.r.regs[OutputOffset(obs.instr.dest)] = uniforms.f[1]
    /\ uniforms.f[1] # uniforms.f[16]

\* for MOV and ADD the claim holds with address registers 1 and 2, with no
\* address register, and with the loop counter at zero; MOVA leaves the
\* integers of the enabled components x and y in the two address registers
C18_MovaOffsets ==
    /\ ( /\ obs.call = "Execute"
         /\ obs.instr.op \in {"MOV", "ADD"}
         /\ \/ obs.instr.address_register_index \in 0..2
            \/ obs.m.LOOPCOUNT_REG = 0
         /\ InBank(obs.instr.src1,
                   AddressOffset(obs.instr.address_register_index)) )
       => LoadsAsIndexed
    /\ ( /\ Executed("MOVA")
         /\ \A c \in 1..2 : Source1[c] # NaN /\ ~IsHalf(Source1[c]) )
       => /\ obs.r.ADDROFFS_REG_0 =
                IF obs.swz[1].dest_mask \in {15, 8} THEN Source1[1]
                ELSE obs.m.ADDROFFS_REG_0
          /\ obs.r.ADDROFFS_REG_1 =
                IF obs.swz[1].dest_mask \in {15, 4} THEN Source1[2]
                ELSE obs.m.ADDROFFS_REG_1

\* the destination lanes a descriptor enables: bit 3 of the mask is x
Enabled == { c \in 1..4 : (obs.swz[1].dest_mask \div (2 ^ (4 - c))) % 2 = 1 }

\* the destination register of the instruction after it ran
Dest == obs.r.regs[OutputOffset(obs.instr.dest)]

\* C19: SLT and SLTI write to every enabled destination lane c 1.0 if
\* s1[c] < s2[c] and 0.0 otherwise, s1 and s2 each loaded with their own
\* selector and negate flag; the compiled code does this for both opcodes
C19_SetLessThan ==
    (obs.call = "Execute" /\ obs.instr.op \in {"SLT", "SLTI"}
       /\ obs.instr.address_register_index = 0) =>
        /\ obs.r.fault = ""
        /\ \A c \in Enabled :
              Dest[c] = (IF FloatCompare("LT", Source1[c], Source2[c])
                         THEN 1 ELSE 0)

\* a compiled SLTI left 1.0 in lane y although s1.y is not below s2.y
C19_LaneNotCompared ==
    /\ Executed("SLTI")
    /\ obs.instr.address_register_index = 0
    /\ obs.swz[1] = IdentityPattern
    /\ ~FloatCompare("LT", Source1[2], Source2[2])
    /\ Dest[2] = 1

\* what the compiled SLTI does get right: lane x under a descriptor that
\* treats both sources alike
C19_FirstLane ==
    ( /\ Executed("SLTI")
      /\ obs.instr.address_register_index = 0
      /\ obs.swz[1].sel1 = obs.swz[1].sel2
      /\ obs.swz[1].negate_src1 = obs.swz[1].negate_src2
      /\ 1 \in Enabled )
    => Dest[1] = (IF FloatCompare("LT", Source1[1], Source2[1]) THEN 1 ELSE 0)

\* C20: RCP writes 1 / s1.x and RSQ writes 1 / sqrt(s1.x), s1.x being
\* component x of the swizzled source, to every enabled destination lane:
\* all enabled lanes receive the same value, computed from x alone
C20_BroadcastFromX ==
    (obs.call = "Execute" /\ obs.instr.op \in {"RCP", "RSQ"}) =>
        /\ obs.r.fault = ""
        /\ \A c \in Enabled :
              Dest[c] = [f |-> IF obs.instr.op = "RCP" THEN "RCPPS"
                               ELSE "RSQRTPS",
                         of |-> Source1[1]]

\* a compiled RCP wrote the reciprocal of s1.y to lane y, s1.y differing
\* from s1.x
C20_LaneFromOwnComponent ==
    /\ Executed("RCP")
    /\ 2 \in Enabled
    /\ Source1[2] # Source1[1]
    /\ Dest[2] = [f |-> "RCPPS", of |-> Source1[2]]

\* what the compiled RCP and RSQ do: every enabled lane receives the result
\* for its own component of the swizzled source, which is the broadcast of
\* x exactly when the selector repeats x
C20_PerLane ==
    (obs.call = "Execute" /\ obs.instr.op \in {"RCP", "RSQ"}) =>
        /\ obs.r.fault = ""
        /\ \A c \in Enabled :
              Dest[c] = [f |-> IF obs.instr.op = "RCP" THEN "RCPPS"
                               ELSE "RSQRTPS",
                         of |-> Source1[c]]

-----------------------------------------------------------------------------
(* MOVA, the destination commit and the operand load *)

\* a float converted to a signed 32-bit integer by truncation toward zero
Truncated(a) ==
    IF IsHalf(a) THEN (IF a - 2000 >= 0 THEN a - 2000 ELSE a - 2000 + 1)
    ELSE a

\* the component x (1) or y (2) of the destination is enabled
MovaEnabled(c) == (obs.swz[1].dest_mask \div (2 ^ (4 - c))) % 2 = 1

\* the address registers hold the truncated components x and y of the
\* source where these are enabled and are numbers
MovaTruncates ==
    /\ (MovaEnabled(1) /\ Source1[1] # NaN)
          => obs.r.ADDROFFS_REG_0 = Truncated(Source1[1])
    /\ (MovaEnabled(2) /\ Source1[2] # NaN)
          => obs.r.ADDROFFS_REG_1 = Truncated(Source1[2])

\* C21: MOVA converts s1.x and s1.y to signed 32-bit integers by truncation
\* toward zero (1.5 -> 1, -1.5 -> -1) before storing them in the address
\* offsets, in the compiled code
C21_MovaTruncates == Executed("MOVA") => MovaTruncates

\* a compiled MOVA under the rounding control of a fresh process stored 2
\* for a source component of 1.5
C21_RoundedToNearest ==
    /\ Executed("MOVA")
    /\ obs.rc = "nearest"
    /\ MovaEnabled(1)
    /\ Source1[1] = Half(1)
    /\ obs.r.ADDROFFS_REG_0 = 2

\* the compiled MOVA truncates when MXCSR rounds toward zero, and on whole
\* values under either rounding control
C21_TruncatesWhenRoundingToZero ==
    ( /\ Executed("MOVA")
      /\ \/ obs.rc = "zero"
         \/ \A c \in 1..2 : ~IsHalf(Source1[c]) )
    => MovaTruncates

\* C22: MOVA writes only the address offsets whose destination component is
\* enabled (only x: offset 0 changes and offset 1 stays; only y: the
\* converse; neither: nothing changes), and never a register of the
\* register file or the loop counter
C22_MovaFrame ==
    Executed("MOVA") =>
        /\ obs.r.fault = ""
        /\ obs.r.regs = obs.m.regs
        /\ obs.r.LOOPCOUNT_REG = obs.m.LOOPCOUNT_REG
        /\ obs.r.LOOPCOUNT = obs.m.LOOPCOUNT
        /\ obs.r.LOOPINC = obs.m.LOOPINC
        /\ obs.r.COND0 = obs.m.COND0 /\ obs.r.COND1 = obs.m.COND1
        /\ ~MovaEnabled(1) => obs.r.ADDROFFS_REG_0 = obs.m.ADDROFFS_REG_0
        /\ ~MovaEnabled(2) => obs.r.ADDROFFS_REG_1 = obs.m.ADDROFFS_REG_1
        /\ (MovaEnabled(1) /\ Source1[1] \in 1..4)
              => obs.r.ADDROFFS_REG_0 = Source1[1]
        /\ (MovaEnabled(2) /\ Source1[2] \in 1..4)
              => obs.r.ADDROFFS_REG_1 = Source1[2]

\* a MOVA with only x enabled replaced address offset 0 and left address
\* offset 1 as it was
C22_OnlyXWritten ==
    /\ Executed("MOVA")
    /\ MovaEnabled(1) /\ ~MovaEnabled(2)
    /\ obs.r.ADDROFFS_REG_0 = 2 /\ obs.m.ADDROFFS_REG_0 = 7
    /\ obs.r.ADDROFFS_REG_1 = 9

\* the value an ADD or MOV computes before the destination commit
Computed ==
    IF obs.instr.op = "ADD"
    THEN [c \in 1..4 |-> FAdd(Source1[c], Source2[c])]
    ELSE Source1

\* the destination register before the instruction ran
DestBefore == obs.m.regs[OutputOffset(obs.instr.dest)]

\* C23: for each of the 16 write-masks the commit emitted for SSE4.1 hosts
\* and the one emitted for other hosts leave the same destination register:
\* an enabled component takes the computed lane, a disabled one keeps its
\* value, and with none enabled the destination is unchanged
C23_CommitsAgree ==
    ( obs.call = "Execute" /\ obs.instr.op \in {"ADD", "MOV"}
        /\ obs.instr.address_register_index = 0 ) =>
        /\ obs.r.fault = ""
        /\ \A c \in 1..4 :
              Dest[c] = IF c \in Enabled THEN Computed[c] ELSE DestBefore[c]
        /\ Enabled = {} => Dest = DestBefore
        /\ \A h \in BOOLEAN :
              ExecOp(obs.instr, 0, obs.m,
                     [swz |-> obs.swz, uniforms |-> uniforms,
                      outside |-> obs.outside, rc |-> obs.rc,
                      sse4_1 |-> h]).regs = obs.r.regs

\* the commit without SSE4.1 wrote y and w of an ADD and kept x and z
C23_FallbackBlended ==
    /\ Executed("ADD")
    /\ ~obs.sse4_1
    /\ obs.swz[1].dest_mask = 5
    /\ Dest = Vec(11, 32, 13, 54)

\* the selector and the negate flag the descriptor holds for the source
\* being loaded
SelectorOfSource ==
    CASE obs.src_num = 1 -> obs.swz[1].sel1
      [] obs.src_num = 2 -> obs.swz[1].sel2
      [] obs.src_num = 3 -> obs.swz[1].sel3

NegateOfSource ==
    CASE obs.src_num = 1 -> obs.swz[1].negate_src1
      [] obs.src_num = 2 -> obs.swz[1].negate_src2
      [] obs.src_num = 3 -> obs.swz[1].negate_src3

\* C24: for every source number s and every 8-bit selector the operand load
\* yields new[c] = src[selector_s[c]], the two top selector bits choosing
\* the component for x, then flips the sign of all lanes iff the negate
\* flag of source s is set; with selector 0x1B and no negate the loaded
\* vector is the source register, and MOV with that descriptor and the full
\* mask copies the source
C24_OperandLoad ==
    obs.call = "Compile_SwizzleSrc" =>
        /\ obs.r = Swizzled(obs.m.regs[0], SelectorOfSource, NegateOfSource)
        /\ (SelectorOfSource = 27 /\ ~NegateOfSource)
              => obs.r = obs.m.regs[0]
        /\ (SelectorOfSource = 27 /\ ~NegateOfSource /\ obs.src_num = 1)
              => Compile_MOV([obs.instr EXCEPT !.op = "MOV"], obs.m,
                             [swz |-> obs.swz, uniforms |-> uniforms,
                              outside |-> [mapped |-> FALSE, v |-> ZeroVec],
                              rc |-> "nearest", sse4_1 |-> TRUE]
                            ).regs[OutputOffset(O(0))] = obs.m.regs[0]

\* source 3 of a MAD loaded as wzyx and negated
C24_ThirdSourceReversed ==
    /\ obs.call = "Compile_SwizzleSrc"
    /\ obs.src_num = 3
    /\ obs.swz[1].sel3 = 228 /\ obs.swz[1].negate_src3
    /\ obs.m.regs[0] = Vec(1, 2, 3, 4)
    /\ obs.r = Vec(0 - 4, 0 - 3, 0 - 2, 0 - 1)

-----------------------------------------------------------------------------
(* The dispatcher under every order of calls *)

\* the entrypoints the cache holds
CachedShaders == { shader_map[k] : k \in DOMAIN shader_map }

\* C25: when Setup has been called after each program change and before the
\* next Run, a Run with the JIT flag true invokes an entrypoint that is
\* non-null, still in the cache and compiled from the current program code,
\* swizzle table and entry offset
C25_RunInvokesCurrentEntry ==
    (obs.call = "Run" /\ obs.fresh /\ obs.jit) =>
        /\ jit_shader # NullShader
        /\ jit_shader \in CachedShaders
        /\ jit_shader.from = CurrentTriple

\* Setup ran with the flag off, the flag was switched on, and Run called
\* the null entrypoint
C25_NullEntryInvoked ==
    /\ obs.call = "Run" /\ obs.fresh /\ obs.jit
    /\ jit_shader = NullShader
    /\ crashed

\* the rest of the claim: Setup with the flag false leaves the cache and
\* the current entrypoint as they are, Run with the flag false returns what
\* the interpreter computes, and a Run whose flag was already true at the
\* last Setup, with no Shutdown since, invokes the entry selected for the
\* current key
C25_FlagOffAndSteadyFlag ==
    [][ /\ (obs'.call = "Setup" /\ ~g_shader_jit_enabled)
            => UNCHANGED <<shader_map, jit_shader>>
        /\ (obs'.call = "Run" /\ ~g_shader_jit_enabled /\ ~crashed')
            => state'.registers =
                 RunInterpreter(program_code, swizzle_data, main_offset,
                                SetupInputRegisters(state.registers,
                                                    input_register_map,
                                                    obs'.input,
                                                    obs'.num_attributes, 0),
                                uniforms).regs
        /\ (obs'.call = "Run" /\ g_shader_jit_enabled /\ obs.call = "Setup")
            => /\ jit_shader # NullShader
               /\ jit_shader \in CachedShaders
               /\ jit_shader =
                    shader_map[CacheKey(program_code, swizzle_data,
                                        main_offset)] ]_vars

-----------------------------------------------------------------------------
(* Compilation of whole programs *)

\* C26: JitCompiler::Compile terminates for every program, also when the
\* range of a CALL holds that CALL or a CALL that leads back to it
C26_CompileTerminates ==
    obs.call = "Compile" => obs.c.status # "unbounded recursion"

\* the compilation of a CALL at address 0 whose range is the word at
\* address 0 does not end
C26_CallCompilesItself ==
    /\ obs.call = "Compile"
    /\ obs.prog[1].op = "CALL"
    /\ CallRange(0) = {0}
    /\ obs.c.status = "unbounded recursion"

\* Compile returns for every program in which no range of a CALL, CALLC or
\* CALLU holds such a word
C26_TerminatesWithoutCallInRange ==
    ( /\ obs.call = "Compile"
      /\ \A pc \in Compiled({"CALL", "CALLC", "CALLU"}) :
            Compiled({"CALL", "CALLC", "CALLU"}) \cap CallRange(pc) = {} )
    => obs.c.status # "unbounded recursion"

\* an assertion of the compiler failed
AssertionFailed ==
    obs.c.status \in { "Backwards if-statements not supported",
                       "Backwards loops not supported",
                       "Backwards jumps not supported",
                       "Nested loops not supported" }

\* the addresses an execution may continue with after the word at pc (a
\* CALL counted as reaching both its range and the word after it)
Successors(pc) ==
    LET w == obs.prog[pc + 1]
    IN  CASE w.op = "END" -> {}
          [] w.op \in {"IFU", "IFC", "JMPU", "JMPC", "CALL", "CALLC",
                       "CALLU"} -> {pc + 1, w.dest_offset}
          [] OTHER -> {pc + 1}

\* the addresses an execution that starts at main_offset can reach, at most
RECURSIVE ReachableFrom(_)
ReachableFrom(S) ==
    LET T == (S \cup UNION { Successors(pc) : pc \in S })
                \cap (0..(ProgSize - 1))
    IN  IF T = S THEN S ELSE ReachableFrom(T)

\* the words an assertion can fail on: an IF, JMP or LOOP that does not go
\* beyond the next word, and every LOOP when the program holds two
Offending ==
    { pc \in Compiled({"IFU", "IFC", "JMPU", "JMPC", "LOOP"}) :
        \/ obs.prog[pc + 1].dest_offset <= pc + 1
        \/ obs.prog[pc + 1].op = "LOOP" /\ NestedLoop }

\* C27: Setup with the JIT enabled fails on unsupported control flow only
\* when the offending instruction can be executed starting at main_offset:
\* such a word in program memory that no execution reaches does not make
\* compilation fail
C27_FailsOnlyOnReachableWords ==
    (obs.call = "Compile" /\ AssertionFailed) =>
        Offending \cap ReachableFrom({obs.main}) # {}

\* compilation failed on a word behind the END of the main routine that
\* nothing calls or jumps to
C27_DeadWordRejected ==
    /\ obs.call = "Compile" /\ AssertionFailed
    /\ obs.main = 0
    /\ obs.prog[2].op = "END"
    /\ ReachableFrom({0}) = {0, 1}
    /\ Offending = {3}

\* what the compiler goes by: it fails on an offending word exactly when
\* one lies at or after main_offset or in the range of a CALL it compiles,
\* words before main_offset that nothing calls being the only ones it
\* never looks at
C27_FailsOnWordsFromMain ==
    (obs.call = "Compile" /\ obs.c.status # "unbounded recursion") =>
        ( AssertionFailed <=>
            \E pc \in Offending : Visited(pc) )

====
